---- MODULE Spec2Model ----
(***************************************************************************)
(* Model of the ticket synchronisation engine of life-manager              *)
(* (src/src/App.tsx): fetchJiraSearch, mapIssueToTicket, refreshFromJira   *)
(* with its inner runQuery, and the onRefresh handler of App.              *)
(*                                                                         *)
(* Text is modelled as a sequence of one-character strings wherever the    *)
(* code folds case or searches substrings; dates are day numbers.          *)
(***************************************************************************)
EXTENDS Integers, Sequences, FiniteSets, Bags, TLC

\* ------------------------------------------------------------------ bounds
\* most page requests the upstream lets one query run make
MaxPages == 2
\* most records the upstream returns to one query run, over all its pages
MaxRecords == 2

\* null / undefined
None == "null"
\* an absent date or number is the empty tuple, a present one <<n>>
NoValue == << >>

\* continuation cursors the upstream hands out
Tokens == {"t1"}

\* ------------------------------------------------------------ text helpers
UpperCase == <<"A","B","C","D","E","F","G","H","I","J","K","L","M",
               "N","O","P","Q","R","S","T","U","V","W","X","Y","Z">>
LowerCase == <<"a","b","c","d","e","f","g","h","i","j","k","l","m",
               "n","o","p","q","r","s","t","u","v","w","x","y","z">>

UpperToLower ==
  [c \in {UpperCase[i] : i \in DOMAIN UpperCase} |->
     LowerCase[CHOOSE i \in DOMAIN UpperCase : UpperCase[i] = c]]

\* a case fold that does nothing
toLowerCase_identity(s) == s

\* String.prototype.toLowerCase
toLowerCase(s) ==
  [i \in DOMAIN s |-> IF s[i] \in DOMAIN UpperToLower THEN UpperToLower[s[i]] ELSE s[i]]

\* String.prototype.includes
includes(hay, needle) ==
  \E off \in 0..(Len(hay) - Len(needle)) :
     \A i \in 1..Len(needle) : hay[off + i] = needle[i]

str_done == <<"d","o","n","e">>
str_tactical == <<"t","a","c","t","i","c","a","l">>
str_operational == <<"o","p","e","r","a","t","i","o","n","a","l">>
str_not_yet == <<"n","o","t"," ","y","e","t">>
str_ai == <<"a","i">>
NotYetClassified ==
  <<"N","o","t"," ","y","e","t"," ","c","l","a","s","s","i","f","i","e","d">>

\* --------------------------------------------------------- field derivation
\* today - due in whole days; dates are already day numbers
signedAgingDays(dueDate, now) ==
  IF dueDate = NoValue THEN NoValue ELSE << now - dueDate[1] >>

\* the thresholds taken inclusively
bucketFromSignedAgingDays_inclusive(days) ==
  IF days = NoValue THEN "Unknown"
  ELSE IF days[1] >= 90 THEN "90+"
  ELSE IF days[1] >= 60 THEN "61-90"
  ELSE IF days[1] >= 30 THEN "31-60"
  ELSE "0-30"

bucketFromSignedAgingDays(days) ==
  IF days = NoValue THEN "Unknown"
  ELSE IF days[1] > 90 THEN "90+"
  ELSE IF days[1] > 60 THEN "61-90"
  ELSE IF days[1] > 30 THEN "31-60"
  ELSE "0-30"

\* the category without its `else if (lowerType.includes('not yet'))` branch
categoryOf_noAdHoc(projectTypeValue) ==
  LET lowerType == toLowerCase(projectTypeValue) IN
  IF includes(lowerType, str_tactical) \/ includes(lowerType, str_operational)
    THEN "Tactical"
  ELSE "Strategic"

categoryOf(projectTypeValue) ==
  LET lowerType == toLowerCase(projectTypeValue) IN
  IF includes(lowerType, str_tactical) \/ includes(lowerType, str_operational)
    THEN "Tactical"
  ELSE IF includes(lowerType, str_not_yet) THEN "Ad hoc"
  ELSE "Strategic"

\* f.customfield_11588.map((x) => x?.value).filter(Boolean): an option
\* without a value is the empty text
RECURSIVE filterValues(_)
filterValues(xs) ==
  IF xs = << >> THEN << >>
  ELSE IF Head(xs) = << >> THEN filterValues(Tail(xs))
  ELSE << Head(xs) >> \o filterValues(Tail(xs))

\* one raw upstream record -> one Ticket; `now` is the clock read by
\* signedAgingDays; a list field that is missing is NoValue, a present
\* list xs is << xs >>
mapIssueToTicket(issue, now) ==
  LET statusCategoryName ==
        toLowerCase(issue.statusCategory)
      isDone == statusCategoryName = str_done
      dueDate == issue.duedate
      age == signedAgingDays(dueDate, now)
      projectTypeValues ==
        IF issue.customfield_11588 /= NoValue
          THEN filterValues(issue.customfield_11588[1])
          ELSE << >>
      projectTypeValue ==
        IF projectTypeValues = <<>> THEN NotYetClassified ELSE projectTypeValues[1]
  IN [ key |-> issue.key,
       summary |-> IF issue.summary = None THEN "" ELSE issue.summary,
       issueType |-> IF issue.issuetype = None THEN "Unknown" ELSE issue.issuetype,
       projectTypeValue |-> projectTypeValue,
       dueDate |-> dueDate,
       agingDays |-> age,
       agingBucket |-> bucketFromSignedAgingDays(age),
       isDone |-> isDone,
       isOverdue |-> (age /= NoValue /\ age[1] > 0),
       category |-> categoryOf(projectTypeValue),
       active |-> ~isDone ]

\* ------------------------------------------------- dates as the code reads them
\* time-of-day positions the model tells apart within one day
SlotsPerDay == 2
\* last day a date text of the model names
MaxStampDay == 2

\* the texts a date field may hold: null, the empty string, a text that
\* new Date() cannot parse, or a date with a time of day
NullDate == [kind |-> "null", day |-> 0, slot |-> 0]
DateTexts ==
  { NullDate,
    [kind |-> "empty", day |-> 0, slot |-> 0],
    [kind |-> "unparseable", day |-> 0, slot |-> 0] }
  \cup [kind : {"stamp"}, day : 0..MaxStampDay, slot : 0..(SlotsPerDay - 1)]

\* toDate: the instant (getTime(), in slots) or null
toDate(value) ==
  IF value.kind \in {"null", "empty"} THEN NoValue
  ELSE IF value.kind = "unparseable" THEN NoValue
  ELSE << value.day * SlotsPerDay + value.slot >>

\* new Date(d.getFullYear(), d.getMonth(), d.getDate()).getTime()
startOfDay(instant) == (instant \div SlotsPerDay) * SlotsPerDay

\* `<` in place of `<=`
deliveryOutcome_strict(resolvedDate, dueDate) ==
  LET due == toDate(dueDate)
      resolved == toDate(resolvedDate)
  IN IF due = NoValue THEN "No due date"
     ELSE IF resolved = NoValue THEN "Unknown completion date"
     ELSE IF startOfDay(resolved[1]) < startOfDay(due[1]) THEN "On Time"
     ELSE "Late"

deliveryOutcome(resolvedDate, dueDate) ==
  LET due == toDate(dueDate)
      resolved == toDate(resolvedDate)
  IN IF due = NoValue THEN "No due date"
     ELSE IF resolved = NoValue THEN "Unknown completion date"
     ELSE IF startOfDay(resolved[1]) <= startOfDay(due[1]) THEN "On Time"
     ELSE "Late"

\* ------------------------------------------------------------------- brand
str_selleys == <<"s","e","l","l","e","y","s">>
str_yates == <<"y","a","t","e","s">>

\* the join without its separator
RECURSIVE joinSpace_noSeparator(_)
joinSpace_noSeparator(xs) ==
  IF xs = << >> THEN << >>
  ELSE Head(xs) \o joinSpace_noSeparator(Tail(xs))

\* [...].join(' ')
RECURSIVE joinSpace(_)
joinSpace(xs) ==
  IF xs = << >> THEN << >>
  ELSE IF Len(xs) = 1 THEN xs[1]
  ELSE xs[1] \o <<" ">> \o joinSpace(Tail(xs))

deriveBrand(labels, brands) ==
  LET hay == toLowerCase(joinSpace(labels \o brands)) IN
  IF includes(hay, str_selleys) THEN "Selleys"
  ELSE IF includes(hay, str_yates) THEN "Yates"
  ELSE "Other"

\* ---------------------------------------------------------------- upstream
\* raw records the upstream can return (statusCategory << >> is a missing
\* or empty status-category name, which the code folds to the empty string)
RawIssues ==
  { [ key |-> "K1", summary |-> "s1", statusCategory |-> <<"T","o"," ","D","o">>,
      duedate |-> <<0>>, issuetype |-> "Task", customfield_11588 |-> NoValue ],
    [ key |-> "K1", summary |-> "s2", statusCategory |-> <<"D","o","n","e">>,
      duedate |-> NoValue, issuetype |-> "Epic",
      customfield_11588 |-> << << <<"A","I">> >> >> ],
    [ key |-> "K2", summary |-> "s1", statusCategory |-> << >>,
      duedate |-> <<-1>>, issuetype |-> None,
      customfield_11588 |-> << << <<"O","p","e","r","a","t","i","o","n","a","l","/",
                                    "T","a","c","t","i","c","a","l">> >> >> ] }

\* --------------------------------------------------------- fetchJiraSearch
\* what one candidate endpoint answers to one request
Outcomes == {"json_ok", "json_error", "sign_in_required", "non_json", "network_error"}

\* baseUrl.endsWith('/') ? baseUrl.slice(0, -1) : baseUrl
normalizedBaseOf(baseUrl) ==
  CASE baseUrl = "/" -> ""
    [] baseUrl = "/app/" -> "/app"
    [] OTHER -> baseUrl

\* [..].filter(Boolean)
RECURSIVE filterBoolean(_)
filterBoolean(xs) ==
  IF xs = << >> THEN << >>
  ELSE IF Head(xs) = "" THEN filterBoolean(Tail(xs))
  ELSE << Head(xs) >> \o filterBoolean(Tail(xs))

\* Array.from(new Set(xs)): first occurrences, in insertion order
RECURSIVE arrayFromSet(_, _)
arrayFromSet(xs, seen) ==
  IF xs = << >> THEN seen
  ELSE IF \E i \in DOMAIN seen : seen[i] = Head(xs)
    THEN arrayFromSet(Tail(xs), seen)
  ELSE arrayFromSet(Tail(xs), Append(seen, Head(xs)))

proxyBasesOf(e) ==
  arrayFromSet(
    filterBoolean(<< e.JIRA_PROXY_BASE,
                     normalizedBaseOf(e.BASE_URL) \o "/proxy/jira",
                     "/proxy/jira",
                     "/api/proxy/jira" >>),
    << >>)

candidatesOf(e) ==
  LET proxyBases == proxyBasesOf(e) IN
  [i \in DOMAIN proxyBases |-> proxyBases[i] \o "/rest/api/3/search/jql"]

\* the message of the error one failed attempt throws
attemptMessage(outcome) ==
  CASE outcome = "json_error" -> "HTTP 500"
    [] outcome = "sign_in_required" ->
         "Session expired in preview, please refresh page and sign in again."
    [] outcome = "non_json" -> "Non-JSON response (HTTP 502)"
    [] OTHER -> "request failed"

\* errors.push(`${url}: ${err?.message || 'request failed'}`)
errorEntry(url, outcome) == url \o ": " \o attemptMessage(outcome)

\* errors.join(' | ')
RECURSIVE join(_)
join(es) ==
  IF es = << >> THEN ""
  ELSE IF Len(es) = 1 THEN es[1]
  ELSE es[1] \o " | " \o join(Tail(es))

\* attempt without the `if (!res.ok) throw`: an error body counts as the page
attempt_ignoresStatus(cands, resp, i, errs) ==
  IF resp[i] \in {"json_ok", "json_error"}
    THEN [returned |-> TRUE, by |-> i, errors |-> errs]
    ELSE [returned |-> FALSE, by |-> 0,
          errors |-> Append(errs, errorEntry(cands[i], resp[i]))]

\* attempt with `errors = [entry]` in place of errors.push(entry)
attempt_keepsLastError(cands, resp, i, errs) ==
  IF resp[i] = "json_ok"
    THEN [returned |-> TRUE, by |-> i, errors |-> errs]
    ELSE [returned |-> FALSE, by |-> 0,
          errors |-> << errorEntry(cands[i], resp[i]) >>]

\* attempt that does not return the body of the first candidate
attempt_passesOverFirst(cands, resp, i, errs) ==
  IF resp[i] = "json_ok" /\ i > 1
    THEN [returned |-> TRUE, by |-> i, errors |-> errs]
    ELSE [returned |-> FALSE, by |-> 0,
          errors |-> Append(errs, errorEntry(cands[i], resp[i]))]

\* one iteration of the for-loop: candidate i answers resp[i]; either the
\* body is returned or the error is caught and recorded
attempt(cands, resp, i, errs) ==
  IF resp[i] = "json_ok"
    THEN [returned |-> TRUE, by |-> i, errors |-> errs]
    ELSE [returned |-> FALSE, by |-> 0,
          errors |-> Append(errs, errorEntry(cands[i], resp[i]))]

\* the for-loop from candidate i on, with the errors recorded so far, and
\* the throw after it
RECURSIVE tryCandidates(_, _, _, _)
tryCandidates(cands, resp, i, errs) ==
  IF i > Len(cands) THEN [ok |-> FALSE, by |-> 0, message |-> join(errs)]
  ELSE LET a == attempt(cands, resp, i, errs) IN
       IF a.returned THEN [ok |-> TRUE, by |-> a.by, message |-> ""]
       ELSE tryCandidates(cands, resp, i + 1, a.errors)

fetchJiraSearch(cands, resp) == tryCandidates(cands, resp, 1, << >>)

\* ------------------------------------------------------------ refreshFromJira
jqlTail ==
  " OR (project in (EPM, DLWLC) AND statusCategory != Done AND "
  \o "(\"Brands/Function\" ~ \"Selleys\" OR \"Brands/Function\" ~ \"Yates\"))"
  \o " OR (\"Project Type\" = \"AI\")"

jqlPrimary == "(assignee = currentUser() OR reporter = currentUser())" \o jqlTail

\* the fallback query without the owner predicate
jqlFallbackOf_primaryAgain(owner) == jqlPrimary

jqlFallbackOf(owner) ==
  IF owner /= ""
    THEN "(assignee = \"" \o owner \o "\" OR reporter = \"" \o owner \o "\")" \o jqlTail
    ELSE jqlPrimary

\* a value is "truthy" as a cursor unless it is undefined or the empty string
truthy(tok) == tok /= None /\ tok /= ""

\* mapSet that leaves an existing key alone
mapSet_keepOld(m, t) ==
  IF \E i \in DOMAIN m : m[i].key = t.key THEN m ELSE Append(m, t)

\* mapSet on a list in place of a Map
mapSet_append(m, t) == Append(m, t)

\* mergedByKey.set(t.key, t): a Map keeps the position of an existing key
mapSet(m, t) ==
  IF \E i \in DOMAIN m : m[i].key = t.key
    THEN [i \in DOMAIN m |-> IF m[i].key = t.key THEN t ELSE m[i]]
    ELSE Append(m, t)

\* the for-loops as a plain concatenation
setAll_concat(m, ts) == m \o ts

RECURSIVE setAll(_, _)
setAll(m, ts) == IF ts = << >> THEN m ELSE setAll(mapSet(m, Head(ts)), Tail(ts))

\* the merge without the loop over prev.tickets
mergeByKey_freshOnly(prevTickets, refreshedTickets) ==
  setAll(<< >>, refreshedTickets)

\* Array.from(mergedByKey.values()) after the two for-loops
mergeByKey(prevTickets, refreshedTickets) ==
  setAll(setAll(<< >>, prevTickets), refreshedTickets)

isInitiative(t) ==
  t.issueType \in {"Initiative", "Epic", "Capability"} \/ t.category = "Strategic"

isAi(t) == toLowerCase(t.projectTypeValue) = str_ai

totalsOf(tickets) ==
  [ allTickets |-> Len(tickets),
    totalInitiatives |-> Cardinality({i \in DOMAIN tickets : isInitiative(tickets[i])}),
    overdueItems |-> Cardinality({i \in DOMAIN tickets : tickets[i].isOverdue}),
    completed |-> Cardinality({i \in DOMAIN tickets : tickets[i].isDone}),
    activeTickets |-> Cardinality({i \in DOMAIN tickets : tickets[i].active}),
    aiProjectTypeTickets |-> Cardinality({i \in DOMAIN tickets : isAi(tickets[i])}) ]

\* the part of refreshFromJira after the two query runs: map, merge,
\* summarise
\* allIssues.map(mapIssueToTicket)
mapAll(issues, now) == [i \in DOMAIN issues |-> mapIssueToTicket(issues[i], now)]

\* the totals patched from the previous ones: each counter incremented by
\* the count over the fetched tickets
buildReport_patchedTotals(prevReport, issues, now) ==
  LET refreshedTickets == mapAll(issues, now)
      tickets == mergeByKey(prevReport.tickets, refreshedTickets)
      fresh == totalsOf(refreshedTickets)
      old == prevReport.totals
  IN [ generatedAt |-> now,
       owner |-> prevReport.owner,
       totals |-> [ allTickets |-> old.allTickets + fresh.allTickets,
                    totalInitiatives |-> old.totalInitiatives + fresh.totalInitiatives,
                    overdueItems |-> old.overdueItems + fresh.overdueItems,
                    completed |-> old.completed + fresh.completed,
                    activeTickets |-> old.activeTickets + fresh.activeTickets,
                    aiProjectTypeTickets |->
                      old.aiProjectTypeTickets + fresh.aiProjectTypeTickets ],
       tickets |-> tickets ]

buildReport(prevReport, issues, now) ==
  LET refreshedTickets == mapAll(issues, now)
      tickets == mergeByKey(prevReport.tickets, refreshedTickets)
  IN [ generatedAt |-> now,
       owner |-> prevReport.owner,
       totals |-> totalsOf(tickets),
       tickets |-> tickets ]

\* ----------------------------------------------------- the bundled snapshot
BundledK0 ==
  [ key |-> "K0", summary |-> "s0", issueType |-> "Initiative",
    projectTypeValue |-> <<"S","t","r","a","t","e","g","i","c">>,
    dueDate |-> NoValue, agingDays |-> NoValue, agingBucket |-> "Unknown",
    isDone |-> FALSE, isOverdue |-> FALSE, category |-> "Strategic",
    active |-> TRUE ]

BundledK1 ==
  [ key |-> "K1", summary |-> "s0", issueType |-> "Task",
    projectTypeValue |-> NotYetClassified,
    dueDate |-> <<0>>, agingDays |-> <<0>>, agingBucket |-> "0-30",
    isDone |-> TRUE, isOverdue |-> FALSE, category |-> "Ad hoc",
    active |-> FALSE ]

StaleTotals ==
  [ allTickets |-> 7, totalInitiatives |-> 7, overdueItems |-> 7,
    completed |-> 7, activeTickets |-> 7, aiProjectTypeTickets |-> 7 ]

\* report = reportData.json: the snapshots the application may be built with
BundledReports ==
  { [ generatedAt |-> -1, owner |-> "", totals |-> totalsOf(<< >>),
      tickets |-> << >> ],
    [ generatedAt |-> -1, owner |-> "Simon",
      totals |-> totalsOf(<< BundledK0, BundledK1 >>),
      tickets |-> << BundledK0, BundledK1 >> ],
    [ generatedAt |-> -1, owner |-> "Simon", totals |-> StaleTotals,
      tickets |-> << BundledK0, BundledK1 >> ] }

\* ------------------------------------------------------------------- state
VARIABLES
  reportData,     \* useState<ReportShape>: the current snapshot
  isRefreshing,   \* useState<boolean>
  refreshError,   \* useState<string | null>
  hasInitialLoadCompleted,
  today,          \* the day new Date() reads
  env,            \* VITE_JIRA_PROXY_BASE (normalised) and BASE_URL
  pc,             \* "mount" | "idle" | "awaitPage" | "settled"
  trigger,        \* "load" (the mount effect) or "click" (the Refresh button)
  prev,           \* the snapshot refreshFromJira was called with
  run,            \* "primary" | "fallback": which runQuery call is active
  request,        \* the page request in flight: jql and nextPageToken
  allIssues,      \* runQuery: records accumulated by the active run
  result,         \* how refreshFromJira settled: a report or a thrown message
  pageLog,        \* history of this refresh: one entry per page request
  lastPage,       \* history: the body of the page received last
  returned,       \* history: what each finished runQuery call returned
  fResp,          \* fetchJiraSearch: what each candidate answers
  fIdx,           \* fetchJiraSearch: position of the for-loop
  errors,         \* fetchJiraSearch: errors recorded so far
  fContacted,     \* history: candidates contacted, in order
  fResult,        \* fetchJiraSearch: "idle", "pending", "returned" or "thrown"
  fMessage,       \* fetchJiraSearch: the message of the error thrown
  call,           \* a derivation applied on its own: the function and its arguments
  ret,            \* what that application has produced so far
  meeting,        \* MeetingsTab useState<MeetingData | null>: NoValue or << m >>
  step,           \* MeetingsTab: 'idle' | 'parsing' | 'review' | 'saving' | 'done'
  error,          \* MeetingsTab useState<string | null>
  jiraTickets,    \* MeetingsTab useState<JiraTicket[]>
  outlookSent,    \* MeetingsTab useState<boolean>
  actionLog,      \* MeetingsTab useState<string[]>, as a bag of messages
  outlookBridge,  \* OUTLOOK_BRIDGE_URL
  tasks,          \* the processFile and onSaveAndAction calls made, in order
  sent,           \* history: for each call of tasks, the requests it has issued
  view,           \* the render of App last committed: what the page shows and
                  \* what the handlers of its controls have captured
  inFlight,       \* the onRefresh calls that have not settled yet
  lastApplied     \* history: the successful refresh applied last, NoValue if none

vars == << reportData, isRefreshing, refreshError, hasInitialLoadCompleted, today,
           env, pc, trigger, prev, run, request, allIssues, result, pageLog,
           lastPage, returned, fResp, fIdx, errors, fContacted, fResult, fMessage,
           call, ret, meeting, step, error, jiraTickets, outlookSent, actionLog,
           outlookBridge, tasks, sent, view, inFlight, lastApplied >>

meetingVars ==
  << meeting, step, error, jiraTickets, outlookSent, actionLog, outlookBridge,
     tasks, sent >>

\* the committed render and the onRefresh calls running side by side
renderVars == << view, inFlight, lastApplied >>

appVars == << reportData, isRefreshing, refreshError, hasInitialLoadCompleted >>
refreshVars ==
  << pc, trigger, prev, run, request, allIssues, result, pageLog, lastPage,
     returned >>
fetchVars == << fResp, fIdx, errors, fContacted, fResult, fMessage >>
callVars == << call, ret >>

NoCall == [fn |-> "none"]
NoReturn == [done |-> FALSE]

DefaultEnv == [JIRA_PROXY_BASE |-> "/api/proxy/jira", BASE_URL |-> "/"]

NoResult == [threw |-> FALSE, message |-> "", report |-> << >>]
NoRequest == [jql |-> "", maxResults |-> 0, nextPageToken |-> None]
NoBody == [issues |-> << >>, isLast |-> FALSE, nextPageToken |-> None]

\* the render is not followed: one onRefresh call at a time, its state in
\* the variables of the refresh
NoView == [isRefreshing |-> FALSE, reportData |-> << >>, legacyRoot |-> FALSE]

RenderNotFollowed ==
  /\ view = NoView
  /\ inFlight = {}
  /\ lastApplied = << >>

\* App after its first render, on a root created by createRoot or by the
\* legacy ReactDOM.render: nothing is in flight and the page shows the
\* initial state
FirstRender ==
  /\ view \in [ isRefreshing : {isRefreshing}, reportData : {reportData},
                legacyRoot : BOOLEAN ]
  /\ inFlight = {}
  /\ lastApplied = << >>

\* MeetingsTab after its first render, with no file submitted
MeetingsTabMounted ==
  /\ meeting = NoValue
  /\ step = "idle"
  /\ error = None
  /\ jiraTickets = << >>
  /\ outlookSent = FALSE
  /\ actionLog = EmptyBag
  /\ outlookBridge = ""
  /\ tasks = << >>
  /\ sent = << >>

\* the state after construction, the application built with one of `reports`
InitWith(reports) ==
  /\ reportData \in reports
  /\ isRefreshing = FALSE
  /\ refreshError = None
  /\ hasInitialLoadCompleted = FALSE
  /\ today = 0
  /\ env = DefaultEnv
  /\ pc = "mount"
  /\ trigger = "load"
  /\ prev = reportData
  /\ run = "primary"
  /\ request = NoRequest
  /\ allIssues = << >>
  /\ result = NoResult
  /\ pageLog = << >>
  /\ lastPage = NoBody
  /\ returned = << >>
  /\ fResp = << >>
  /\ fIdx = 0
  /\ errors = << >>
  /\ fContacted = << >>
  /\ fResult = "idle"
  /\ fMessage = ""
  /\ MeetingsTabMounted
  /\ call = NoCall
  /\ ret = NoReturn

InitApp == InitWith(BundledReports)

Init == InitApp /\ RenderNotFollowed

\* ------------------------------------------------------- upstream behaviour
SeqsUpTo(S, n) == UNION { [1..k -> S] : k \in 0..n }

\* the structured bodies a successful page response may carry, for a run
\* that has already received `have` records
Bodies(have) ==
  [ issues : SeqsUpTo(RawIssues, MaxRecords - have),
    isLast : BOOLEAN,
    nextPageToken : Tokens \cup {None} ]

\* what the candidates answer to one page request, each drawn from `outcomes`
RespVectors(cands, outcomes) == [DOMAIN cands -> outcomes]

\* the answers the candidates give while a refresh is followed page by page
RefreshOutcomes == {"json_ok", "sign_in_required", "network_error"}

pagesOfRun == Cardinality({i \in DOMAIN pageLog : pageLog[i].run = run})

\* one page request: the run it belongs to, the cursor it carried, whether
\* it returned a page, and the records of that page
logEntry(ok, body) ==
  [ run |-> run, sent |-> request.nextPageToken, ok |-> ok, issues |-> body.issues ]

\* some candidate answers the request in flight with a structured body
someCandidateOk ==
  \E resp \in RespVectors(candidatesOf(env), RefreshOutcomes) :
     fetchJiraSearch(candidatesOf(env), resp).ok

\* ------------------------------------------------------------------ runQuery
\* the break tests without `|| page?.isLast`
loopBreaks_ignoresIsLast(page) ==
  \/ Len(page.issues) = 0
  \/ ~truthy(page.nextPageToken)

\* the two break tests of the while (true) loop, on the page just received
loopBreaks(page) ==
  \/ Len(page.issues) = 0
  \/ page.isLast
  \/ ~truthy(page.nextPageToken)

\* `allIssues = issues` in place of the push
pushIssues_replace(all, issues) == issues

\* the cursor of the next request left unset
nextCursor_unset(page) == None

\* nextPageToken = page?.nextPageToken
nextCursor(page) == page.nextPageToken

\* allIssues.push(...issues)
pushIssues(all, issues) == all \o issues

\* the fallback run made unconditional
needsFallback_always(issues) == TRUE

\* if (allIssues.length === 0) allIssues = await runQuery(jqlFallback)
needsFallback(issues) == Len(issues) = 0

\* the zero check removed
isZero_never(issues) == FALSE

\* if (allIssues.length === 0) throw new Error('Refresh returned zero ...')
isZero(issues) == Len(issues) = 0

ZeroMessage == "Refresh returned zero tickets; keeping previous dashboard data."

\* a try/catch around the page request that returns what was fetched so far
runQueryRejects_partial(message, prevReport, issues, now) ==
  IF Len(issues) > 0
    THEN [threw |-> FALSE, message |-> "", report |-> buildReport(prevReport, issues, now)]
    ELSE [threw |-> TRUE, message |-> message, report |-> << >>]

\* a catch in runQuery that takes a failed request for an empty run
runQueryRejects_asEmptyRun(message, prevReport, issues, now) ==
  [threw |-> TRUE, message |-> ZeroMessage, report |-> << >>]

\* `await fetchJiraSearch(...)` throws inside runQuery: neither runQuery nor
\* refreshFromJira catches, so refreshFromJira rejects with that error and
\* the records in `issues` are dropped with the frame
runQueryRejects(message, prevReport, issues, now) ==
  [threw |-> TRUE, message |-> message, report |-> << >>]

\* ------------------------------------------------------------------ actions
\* onRefresh up to its first suspension: the state setters, the call of
\* refreshFromJira(reportData), the first page request of the primary run
onRefreshStart(t) ==
  /\ isRefreshing' = TRUE
  /\ refreshError' = None
  /\ trigger' = t
  /\ prev' = reportData
  /\ run' = "primary"
  /\ request' = [jql |-> jqlPrimary, maxResults |-> 100, nextPageToken |-> None]
  /\ allIssues' = << >>
  /\ result' = NoResult
  /\ pageLog' = << >>
  /\ lastPage' = NoBody
  /\ returned' = << >>
  /\ pc' = "awaitPage"
  /\ UNCHANGED << reportData, hasInitialLoadCompleted, today, env, meetingVars, renderVars, fetchVars, callVars >>

\* useEffect(() => { void runInitialRefresh() }, [])
RunInitialRefresh ==
  /\ pc = "mount"
  /\ onRefreshStart("load")

\* <button onClick={onRefresh} disabled={isRefreshing}>
ClickRefresh ==
  /\ pc = "idle"
  /\ ~isRefreshing
  /\ onRefreshStart("click")

\* every candidate fails for the page request in flight: fetchJiraSearch
\* throws, runQuery and refreshFromJira reject
PageRequestFails ==
  /\ pc = "awaitPage"
  /\ \E resp \in RespVectors(candidatesOf(env), RefreshOutcomes) :
       LET f == fetchJiraSearch(candidatesOf(env), resp) IN
       /\ ~f.ok
       /\ result' = runQueryRejects(f.message, prev, allIssues, today)
  /\ pageLog' = Append(pageLog, logEntry(FALSE, NoBody))
  /\ pc' = "settled"
  /\ UNCHANGED << appVars, today, env, meetingVars, renderVars, trigger, prev, run, request, allIssues,
                  lastPage, returned, fetchVars, callVars >>

\* a page arrives and the loop goes round: the next page request is issued
PageContinues ==
  /\ pc = "awaitPage"
  /\ pagesOfRun + 1 < MaxPages
  /\ someCandidateOk
  /\ \E page \in Bodies(Len(allIssues)) :
       /\ ~loopBreaks(page)
       /\ allIssues' = pushIssues(allIssues, page.issues)
       /\ request' = [request EXCEPT !.nextPageToken = nextCursor(page)]
       /\ pageLog' = Append(pageLog, logEntry(TRUE, page))
       /\ lastPage' = page
  /\ UNCHANGED << appVars, today, env, meetingVars, renderVars, pc, trigger, prev, run, result, returned,
                  fetchVars, callVars >>

\* the last page of the primary run arrives and the run returned nothing:
\* the fallback run starts
PrimaryEmpty ==
  /\ pc = "awaitPage"
  /\ run = "primary"
  /\ someCandidateOk
  /\ \E page \in Bodies(Len(allIssues)) :
       /\ loopBreaks(page)
       /\ needsFallback(pushIssues(allIssues, page.issues))
       /\ pageLog' = Append(pageLog, logEntry(TRUE, page))
       /\ lastPage' = page
       /\ returned' = Append(returned, [run |-> run,
                                       issues |-> pushIssues(allIssues, page.issues)])
  /\ run' = "fallback"
  /\ request' = [jql |-> jqlFallbackOf(prev.owner), maxResults |-> 100,
                 nextPageToken |-> None]
  /\ allIssues' = << >>
  /\ UNCHANGED << appVars, today, env, meetingVars, renderVars, pc, trigger, prev, result, fetchVars, callVars >>

\* the last page of the last run arrives and refreshFromJira is left with no
\* record: it throws
RefreshThrowsZero ==
  /\ pc = "awaitPage"
  /\ someCandidateOk
  /\ \E page \in Bodies(Len(allIssues)) :
       /\ loopBreaks(page)
       /\ ~(run = "primary" /\ needsFallback(pushIssues(allIssues, page.issues)))
       /\ isZero(pushIssues(allIssues, page.issues))
       /\ allIssues' = pushIssues(allIssues, page.issues)
       /\ pageLog' = Append(pageLog, logEntry(TRUE, page))
       /\ lastPage' = page
       /\ returned' = Append(returned, [run |-> run,
                                       issues |-> pushIssues(allIssues, page.issues)])
  /\ result' = [threw |-> TRUE, message |-> ZeroMessage, report |-> << >>]
  /\ pc' = "settled"
  /\ UNCHANGED << appVars, today, env, meetingVars, renderVars, trigger, prev, run, request, fetchVars, callVars >>

\* the last page of the last run arrives and refreshFromJira has records:
\* map, merge, summarise, return
RefreshReturns ==
  /\ pc = "awaitPage"
  /\ someCandidateOk
  /\ \E page \in Bodies(Len(allIssues)) :
       /\ loopBreaks(page)
       /\ ~(run = "primary" /\ needsFallback(pushIssues(allIssues, page.issues)))
       /\ ~isZero(pushIssues(allIssues, page.issues))
       /\ allIssues' = pushIssues(allIssues, page.issues)
       /\ pageLog' = Append(pageLog, logEntry(TRUE, page))
       /\ lastPage' = page
       /\ returned' = Append(returned, [run |-> run,
                                       issues |-> pushIssues(allIssues, page.issues)])
       /\ result' = [threw |-> FALSE, message |-> "",
                     report |-> buildReport(prev, pushIssues(allIssues, page.issues),
                                            today)]
  /\ pc' = "settled"
  /\ UNCHANGED << appVars, today, env, meetingVars, renderVars, trigger, prev, run, request, fetchVars, callVars >>

\* onRefresh after `await refreshFromJira(reportData)`: try / catch / finally,
\* then the rest of runInitialRefresh
onRefreshSettles ==
  /\ pc = "settled"
  /\ IF result.threw
       THEN /\ refreshError' =
                 IF result.message /= "" THEN result.message ELSE "Failed to refresh"
            /\ UNCHANGED reportData
       ELSE /\ reportData' = result.report
            /\ UNCHANGED refreshError
  /\ isRefreshing' = FALSE
  /\ hasInitialLoadCompleted' = (hasInitialLoadCompleted \/ trigger = "load")
  /\ pc' = "idle"
  /\ pageLog' = << >>
  /\ lastPage' = NoBody
  /\ returned' = << >>
  /\ allIssues' = << >>
  /\ request' = NoRequest
  /\ UNCHANGED << today, env, meetingVars, renderVars, trigger, prev, run, result, fetchVars, callVars >>

Next ==
  \/ RunInitialRefresh
  \/ ClickRefresh
  \/ PageRequestFails
  \/ PageContinues
  \/ PrimaryEmpty
  \/ RefreshThrowsZero
  \/ RefreshReturns
  \/ onRefreshSettles

Spec == Init /\ [][Next]_vars

\* ------------------------------------------------ refreshes over several days
\* last day the clock reaches
MaxDay == 1

\* the application built with an empty snapshot: every ticket it ever holds
\* was mapped by one of its own refreshes
InitDays ==
  /\ Init
  /\ reportData.tickets = << >>

\* midnight: new Date() reads the next day from now on
DayPasses ==
  /\ today < MaxDay
  /\ today' = today + 1
  /\ UNCHANGED << appVars, env, meetingVars, renderVars, refreshVars, fetchVars, callVars >>

NextDays ==
  \/ RunInitialRefresh
  \/ ClickRefresh
  \/ PageRequestFails
  \/ PageContinues
  \/ PrimaryEmpty
  \/ RefreshThrowsZero
  \/ RefreshReturns
  \/ onRefreshSettles
  \/ DayPasses

SpecDays == InitDays /\ [][NextDays]_vars

\* ------------------------------- bundled data the Ticket type lets through
\* `report as ReportShape` checks nothing: a ticket of reportData.json has
\* the flags isDone and active the file gives it, each a boolean
FlaggedK0(done, act) == [BundledK0 EXCEPT !.isDone = done, !.active = act]

UncheckedReports ==
  { [ generatedAt |-> -1, owner |-> "Simon", totals |-> totalsOf(<< t >>),
      tickets |-> << t >> ] :
      t \in { FlaggedK0(FALSE, TRUE), FlaggedK0(FALSE, FALSE), FlaggedK0(TRUE, TRUE) } }

InitUnchecked == InitWith(UncheckedReports) /\ RenderNotFollowed

SpecUnchecked == InitUnchecked /\ [][Next]_vars

\* ------------------------------------------- an upstream that never ends
\* pages of an upstream that goes on for ever: one record, not flagged last,
\* with a continuation cursor
EndlessBodies ==
  [ issues : [1..1 -> RawIssues], isLast : {FALSE}, nextPageToken : Tokens ]

\* the run has made the page requests the log keeps, and one more page
\* arrives that lets the loop go round: the next page request is issued with
\* the cursor of this page. The records and the log entries of these pages
\* are not kept (allIssues and pageLog stay within their bounds); the page
\* differs from the one before it
UpstreamGoesOn ==
  /\ pc = "awaitPage"
  /\ pagesOfRun + 1 >= MaxPages
  /\ someCandidateOk
  /\ \E page \in EndlessBodies :
       /\ ~loopBreaks(page)
       /\ page /= lastPage
       /\ request' = [request EXCEPT !.nextPageToken = nextCursor(page)]
       /\ lastPage' = page
  /\ UNCHANGED << appVars, today, env, meetingVars, renderVars, pc, trigger, prev, run, result, returned,
                  allIssues, pageLog, fetchVars, callVars >>

\* the page request in flight returns or fails
RequestSettles ==
  \/ PageRequestFails
  \/ PageContinues
  \/ UpstreamGoesOn
  \/ PrimaryEmpty
  \/ RefreshThrowsZero
  \/ RefreshReturns

NextEndless ==
  \/ RunInitialRefresh
  \/ ClickRefresh
  \/ RequestSettles
  \/ onRefreshSettles

\* the effect of the first render runs, every page request returns or
\* fails, and the continuation of an awaited call runs
FairRefresh ==
  /\ WF_vars(RunInitialRefresh)
  /\ WF_vars(RequestSettles)
  /\ WF_vars(onRefreshSettles)

SpecEndless == InitDays /\ [][NextEndless]_vars /\ FairRefresh

\* ------------------------------------- onRefresh calls and the committed render
\* most onRefresh calls in flight together
MaxInFlight == 2

\* how one call of refreshFromJira(base) can settle: it throws the error of a
\* failed page request or the zero-tickets error, or it returns the report
\* built from the records fetched (here one record)
RefreshResults(base) ==
  { runQueryRejects(fetchJiraSearch(candidatesOf(env),
                                    [i \in DOMAIN candidatesOf(env) |-> "network_error"]).message,
                    base, << >>, today),
    [threw |-> TRUE, message |-> ZeroMessage, report |-> << >>] }
  \cup { [threw |-> FALSE, message |-> "", report |-> buildReport(base, issues, today)] :
           issues \in [1..1 -> RawIssues] }

\* what the page shows once React has rendered the current state
rendering == [view EXCEPT !.isRefreshing = isRefreshing, !.reportData = reportData]

\* onRefresh up to `await refreshFromJira(reportData)`, called from a render
\* whose reportData is `base`
startRefresh(t, base) ==
  /\ isRefreshing' = TRUE
  /\ refreshError' = None
  /\ inFlight' = inFlight \cup
       { [ id |-> CHOOSE i \in 1..MaxInFlight : \A r \in inFlight : r.id /= i,
           base |-> base, trigger |-> t ] }

\* useEffect(() => { void runInitialRefresh() }, []): the effect of the first
\* render calls onRefresh. On a legacy root the state set in the effect is
\* rendered before anything else runs; on a root made by createRoot it is
\* rendered in a later task
MountEffect ==
  /\ pc = "mount"
  /\ pc' = "idle"
  /\ Cardinality(inFlight) < MaxInFlight
  /\ startRefresh("load", view.reportData)
  /\ view' = IF view.legacyRoot THEN [view EXCEPT !.isRefreshing = TRUE] ELSE view
  /\ UNCHANGED << reportData, hasInitialLoadCompleted, today, env, meetingVars, lastApplied,
                  trigger, prev, run, request, allIssues, result, pageLog, lastPage,
                  returned, fetchVars, callVars >>

\* a click on <button onClick={onRefresh} disabled={isRefreshing}> as the
\* page shows it: the handler is the onRefresh of the committed render, and
\* the state set inside the click is rendered before the next event
ClickShownButton ==
  /\ pc = "idle"
  /\ ~view.isRefreshing
  /\ Cardinality(inFlight) < MaxInFlight
  /\ startRefresh("click", view.reportData)
  /\ view' = [view EXCEPT !.isRefreshing = TRUE]
  /\ UNCHANGED << reportData, hasInitialLoadCompleted, today, env, meetingVars, lastApplied,
                  refreshVars, fetchVars, callVars >>

\* React renders the state set since the last commit
Render ==
  /\ view /= rendering
  /\ view' = rendering
  /\ UNCHANGED << appVars, today, env, meetingVars, inFlight, lastApplied, refreshVars,
                  fetchVars, callVars >>

\* `await refreshFromJira(reportData)` of one call settles: try / catch /
\* finally of onRefresh, then the rest of runInitialRefresh
RefreshSettles(r) ==
  /\ r \in inFlight
  /\ \E res \in RefreshResults(r.base) :
       IF res.threw
         THEN /\ refreshError' =
                   IF res.message /= "" THEN res.message ELSE "Failed to refresh"
              /\ UNCHANGED << reportData, lastApplied >>
         ELSE /\ reportData' = res.report
              /\ lastApplied' = << [base |-> r.base, over |-> reportData] >>
              /\ UNCHANGED refreshError
  /\ isRefreshing' = FALSE
  /\ hasInitialLoadCompleted' = (hasInitialLoadCompleted \/ r.trigger = "load")
  /\ inFlight' = inFlight \ {r}
  /\ view' = IF view.legacyRoot
               THEN [view EXCEPT !.isRefreshing = FALSE, !.reportData = reportData']
               ELSE view
  /\ UNCHANGED << today, env, meetingVars, refreshVars, fetchVars, callVars >>

InitOverlap == InitApp /\ FirstRender

NextOverlap ==
  \/ MountEffect
  \/ ClickShownButton
  \/ Render
  \/ \E r \in inFlight : RefreshSettles(r)

SpecOverlap == InitOverlap /\ [][NextOverlap]_vars

\* ------------------------------------- fetchJiraSearch, candidate by candidate
\* the deployments: VITE_JIRA_PROXY_BASE after .replace(/\/$/, '') and BASE_URL
Envs ==
  [ JIRA_PROXY_BASE : {"/api/proxy/jira", "/proxy/jira", "/custom", ""},
    BASE_URL : {"/", "/app/"} ]

\* one call of fetchJiraSearch, entered with the loop at its first candidate
InitFetch ==
  /\ reportData \in {r \in BundledReports : r.tickets = << >>}
  /\ isRefreshing = TRUE
  /\ refreshError = None
  /\ hasInitialLoadCompleted = FALSE
  /\ today = 0
  /\ env \in Envs
  /\ pc = "awaitPage"
  /\ trigger = "load"
  /\ prev = reportData
  /\ run = "primary"
  /\ request = [jql |-> jqlPrimary, maxResults |-> 100, nextPageToken |-> None]
  /\ allIssues = << >>
  /\ result = NoResult
  /\ pageLog = << >>
  /\ lastPage = NoBody
  /\ returned = << >>
  /\ fResp \in RespVectors(candidatesOf(env), Outcomes)
  /\ fIdx = 1
  /\ errors = << >>
  /\ fContacted = << >>
  /\ fResult = "pending"
  /\ fMessage = ""
  /\ MeetingsTabMounted
  /\ RenderNotFollowed
  /\ call = NoCall
  /\ ret = NoReturn

\* `await fetch(url, ...)` for the candidate the loop is at settles with a
\* structured body of a successful response: return body
CandidateReturns ==
  /\ fResult = "pending"
  /\ fIdx <= Len(candidatesOf(env))
  /\ attempt(candidatesOf(env), fResp, fIdx, errors).returned
  /\ fContacted' = Append(fContacted, fIdx)
  /\ fResult' = "returned"
  /\ UNCHANGED << appVars, today, env, meetingVars, renderVars, callVars, refreshVars, fResp, fIdx, errors, fMessage >>

\* the attempt at the candidate the loop is at throws: the catch records the
\* error and the loop moves on
CandidateFails ==
  /\ fResult = "pending"
  /\ fIdx <= Len(candidatesOf(env))
  /\ LET a == attempt(candidatesOf(env), fResp, fIdx, errors) IN
       /\ ~a.returned
       /\ errors' = a.errors
  /\ fContacted' = Append(fContacted, fIdx)
  /\ fIdx' = fIdx + 1
  /\ UNCHANGED << appVars, today, env, meetingVars, renderVars, callVars, refreshVars, fResp, fResult, fMessage >>

\* the loop has run out of candidates: throw new Error(errors.join(' | '))
AllCandidatesFailed ==
  /\ fResult = "pending"
  /\ fIdx > Len(candidatesOf(env))
  /\ fResult' = "thrown"
  /\ fMessage' = join(errors)
  /\ UNCHANGED << appVars, today, env, meetingVars, renderVars, callVars, refreshVars, fResp, fIdx, errors, fContacted >>

NextFetch ==
  \/ CandidateReturns
  \/ CandidateFails
  \/ AllCandidatesFailed

SpecFetch == InitFetch /\ [][NextFetch]_vars

\* ------------------------------------------- field derivation, call by call
\* largest magnitude of an aging value handed to bucketFromSignedAgingDays
MaxAge == 92
\* most labels, and most brand-field values, of one record
MaxTokens == 2

\* label and brand-field texts
Words ==
  { <<"s","e","l","l","e","y","s","-","p","a","i","n","t">>,
    <<"Y","a","t","e","s">>,
    <<"S","E","L","L","E","Y","S">>,
    <<"s","e","l","l">>,
    <<"e","y","s">>,
    <<"g","a","r","d","e","n">> }

\* status-category names of the upstream; << >> is a missing one
StatusNames ==
  { << >>,
    <<"D","o","n","e">>, <<"d","o","n","e">>, <<"D","O","N","E">>,
    <<"d","O","n","E">>, <<"D","o","n","e"," ">>, <<"U","n","d","o","n","e">>,
    <<"T","o"," ","D","o">> }

\* what customfield_11588 may hold: nothing, or a list of options
ProjectTypeFields ==
  { NoValue,
    << << >> >>,
    << << << >> >> >>,
    << << <<"A","I">> >> >>,
    << << <<"S","t","r","a","t","e","g","i","c">> >> >>,
    << << <<"N","O","T"," ","Y","E","T"," ","c","l","a","s","s","i","f","i","e","d">> >> >>,
    << << <<"O","p","e","r","a","t","i","o","n","a","l","/",
            "T","a","c","t","i","c","a","l">> >> >>,
    << << <<"T","A","C","T","I","C","A","L">> >> >>,
    << << <<"A","I">>, <<"T","a","c","t","i","c","a","l">> >> >>,
    << << << >>, <<"A","I">> >> >> }

\* raw records as mapIssueToTicket may meet them, fields present or not
MapIssues ==
  [ key : {"K1", None},
    summary : {"s1", None},
    statusCategory : StatusNames,
    duedate : {NoValue, <<0>>},
    issuetype : {"Task", None},
    customfield_11588 : ProjectTypeFields ]

\* records that carry none of the optional fields but the summary
SparseIssues ==
  { i \in MapIssues :
      /\ i.statusCategory = << >>
      /\ i.duedate = NoValue
      /\ i.issuetype = None
      /\ i.customfield_11588 = NoValue }

\* the applications of the derivation functions that are followed
Calls ==
  [fn : {"bucketFromSignedAgingDays"},
   days : {NoValue} \cup {<< d >> : d \in (0 - MaxAge)..MaxAge}]
  \cup [fn : {"deliveryOutcome"}, resolvedDate : DateTexts, dueDate : DateTexts]
  \cup [fn : {"deriveBrand"},
        labels : SeqsUpTo(Words, MaxTokens), brands : SeqsUpTo(Words, MaxTokens)]
  \cup [fn : {"mapIssueToTicket"}, issue : MapIssues]
  \cup [fn : {"buildReport"}, issues : SeqsUpTo(SparseIssues, MaxRecords)]

\* the application at rest: no refresh in flight, nothing fetched
\* the dashboard with its first load done and nothing in flight
DashboardAtRest ==
  /\ reportData \in {r \in BundledReports : r.tickets = << >>}
  /\ isRefreshing = FALSE
  /\ refreshError = None
  /\ hasInitialLoadCompleted = TRUE
  /\ env = DefaultEnv
  /\ pc = "idle"
  /\ trigger = "load"
  /\ prev = reportData
  /\ run = "primary"
  /\ request = NoRequest
  /\ allIssues = << >>
  /\ result = NoResult
  /\ pageLog = << >>
  /\ lastPage = NoBody
  /\ returned = << >>
  /\ fResp = << >>
  /\ fIdx = 0
  /\ errors = << >>
  /\ fContacted = << >>
  /\ fResult = "idle"
  /\ fMessage = ""
  /\ RenderNotFollowed

AppAtRest ==
  /\ DashboardAtRest
  /\ MeetingsTabMounted

InitDerive ==
  /\ AppAtRest
  /\ today \in {0, 1}
  /\ call \in Calls
  /\ ret = NoReturn

\* a function that has run to its return statement
returns(value) == [done |-> TRUE, threw |-> FALSE, value |-> value]

CallBucketFromSignedAgingDays ==
  /\ call.fn = "bucketFromSignedAgingDays"
  /\ ~ret.done
  /\ ret' = returns(bucketFromSignedAgingDays(call.days))
  /\ UNCHANGED << appVars, today, env, meetingVars, renderVars, refreshVars, fetchVars, call >>

CallDeliveryOutcome ==
  /\ call.fn = "deliveryOutcome"
  /\ ~ret.done
  /\ ret' = returns(deliveryOutcome(call.resolvedDate, call.dueDate))
  /\ UNCHANGED << appVars, today, env, meetingVars, renderVars, refreshVars, fetchVars, call >>

CallDeriveBrand ==
  /\ call.fn = "deriveBrand"
  /\ ~ret.done
  /\ ret' = returns(deriveBrand(call.labels, call.brands))
  /\ UNCHANGED << appVars, today, env, meetingVars, renderVars, refreshVars, fetchVars, call >>

\* mapIssueToTicket has no throw statement, and on a record (an object) no
\* property access of it can throw: it runs to its return
CallMapIssueToTicket ==
  /\ call.fn = "mapIssueToTicket"
  /\ ~ret.done
  /\ ret' = returns(mapIssueToTicket(call.issue, today))
  /\ UNCHANGED << appVars, today, env, meetingVars, renderVars, refreshVars, fetchVars, call >>

\* the tail of refreshFromJira on the records of a finished query: map,
\* merge into the snapshot, summarise; nothing in it throws on a record
CallBuildReport ==
  /\ call.fn = "buildReport"
  /\ ~ret.done
  /\ ret' = returns(buildReport(reportData, call.issues, today))
  /\ UNCHANGED << appVars, today, env, meetingVars, renderVars, refreshVars, fetchVars, call >>

NextDerive ==
  \/ CallBuildReport
  \/ CallBucketFromSignedAgingDays
  \/ CallDeliveryOutcome
  \/ CallDeriveBrand
  \/ CallMapIssueToTicket

SpecDerive == InitDerive /\ [][NextDerive]_vars

\* ------------------------------------------------- SortableFilterableTable
\* most rows of a table
MaxRows == 2

\* a cell value, col.value(row): null / undefined, a number or a text
NullCell == [t |-> "null", n |-> 0, s |-> << >>]
numCell(n) == [t |-> "num", n |-> n, s |-> << >>]
strCell(s) == [t |-> "str", n |-> 0, s |-> s]

Digits == <<"0","1","2","3","4","5","6","7","8","9">>

\* String(n) for a whole number
RECURSIVE numberToString(_)
numberToString(n) ==
  IF n < 0 THEN <<"-">> \o numberToString(0 - n)
  ELSE IF n < 10 THEN << Digits[n + 1] >>
  ELSE numberToString(n \div 10) \o << Digits[(n % 10) + 1] >>

\* String(col.value(row) ?? '')
cellText(v) ==
  CASE v.t = "null" -> << >>
    [] v.t = "num" -> numberToString(v.n)
    [] OTHER -> v.s

\* String.prototype.trim left out
trim_none(s) == s

\* String.prototype.trim
RECURSIVE trim(_)
trim(s) ==
  IF s = << >> THEN s
  ELSE IF Head(s) = " " THEN trim(Tail(s))
  ELSE IF s[Len(s)] = " " THEN trim(SubSeq(s, 1, Len(s) - 1))
  ELSE s

\* the body of columns.every(...) for one column
columnPasses(row, colKey, filters) ==
  LET f == toLowerCase(trim(filters[colKey])) IN
  IF f = << >> THEN TRUE
  ELSE includes(toLowerCase(cellText(row[colKey])), f)

\* columns.some in place of columns.every
rowPasses_some(row, columns, filters) ==
  \E i \in DOMAIN columns : columnPasses(row, columns[i], filters)

\* columns.every((col) => ...)
rowPasses(row, columns, filters) ==
  \A i \in DOMAIN columns : columnPasses(row, columns[i], filters)

\* out = out.filter((row) => columns.every(...))
filterRows(rows, columns, filters) ==
  LET keep(row) == rowPasses(row, columns, filters) IN
  SelectSeq(rows, keep)

\* normalizeAgingBucket; the texts it looks for
str_90plus == <<"9","0","+">>
str_61_90 == <<"6","1","-","9","0">>
str_60_90 == <<"6","0","-","9","0">>
str_31_60 == <<"3","1","-","6","0">>
str_30_60 == <<"3","0","-","6","0">>
str_0_30 == <<"0","-","3","0">>
str_0_to_30 == <<"0"," ","t","o"," ","3","0">>

normalizeAgingBucket(name) ==
  LET lower == trim(toLowerCase(name)) IN
  IF includes(lower, str_90plus) THEN "90+"
  ELSE IF includes(lower, str_61_90) \/ includes(lower, str_60_90) THEN "61-90"
  ELSE IF includes(lower, str_31_60) \/ includes(lower, str_30_60) THEN "31-60"
  ELSE IF includes(lower, str_0_30) \/ includes(lower, str_0_to_30) THEN "0-30"
  ELSE "Unknown"

\* the array literal of the aging-bucket branch of the comparator
bucketRanks == <<"90+", "61-90", "31-60", "0-30", "Unknown">>

\* Array.prototype.indexOf, counted from 0; -1 when absent
indexOf(xs, x) ==
  IF \E i \in DOMAIN xs : xs[i] = x
  THEN (CHOOSE i \in DOMAIN xs : xs[i] = x /\ \A j \in 1..(i - 1) : xs[j] /= x) - 1
  ELSE 0 - 1

isDigits(s) == s /= << >> /\ \A i \in DOMAIN s : \E d \in DOMAIN Digits : Digits[d] = s[i]

digitOf(c) == (CHOOSE d \in DOMAIN Digits : Digits[d] = c) - 1

RECURSIVE digitsValue(_)
digitsValue(s) ==
  IF s = << >> THEN 0
  ELSE digitsValue(SubSeq(s, 1, Len(s) - 1)) * 10 + digitOf(s[Len(s)])

\* Number(text) for the texts of whole numbers: white space at both ends is
\* skipped, the empty text is 0, an optional sign and decimal digits give
\* their value, anything else is NaN, written NoValue
Number(text) ==
  LET s == trim(text) IN
  IF s = << >> THEN << 0 >>
  ELSE IF isDigits(s) THEN << digitsValue(s) >>
  ELSE IF Head(s) = "-" /\ isDigits(Tail(s)) THEN << 0 - digitsValue(Tail(s)) >>
  ELSE IF Head(s) = "+" /\ isDigits(Tail(s)) THEN << digitsValue(Tail(s)) >>
  ELSE NoValue

\* a calendar day as a number that grows with the date
dayNumber(y, m, d) == (y * 12 + (m - 1)) * 31 + (d - 1)

validDay(m, d) == m \in 1..12 /\ d \in 1..31

\* the places of the slashes of a text
slashes(s) == {i \in DOMAIN s : s[i] = "/"}

\* Date.parse(text), in days; NaN is NoValue. The date-only form YYYY-MM-DD
\* is the format every engine reads. What other texts give is left to the
\* engine: a `lenient` engine also reads M/D/YYYY and reads a bare number
\* from 1 to 12 as that month of 2001, a strict one answers NaN
Date_parse(text, lenient) ==
  IF /\ Len(text) = 10 /\ text[5] = "-" /\ text[8] = "-"
     /\ isDigits(SubSeq(text, 1, 4)) /\ isDigits(SubSeq(text, 6, 7))
     /\ isDigits(SubSeq(text, 9, 10))
     /\ validDay(digitsValue(SubSeq(text, 6, 7)), digitsValue(SubSeq(text, 9, 10)))
  THEN << dayNumber(digitsValue(SubSeq(text, 1, 4)), digitsValue(SubSeq(text, 6, 7)),
                    digitsValue(SubSeq(text, 9, 10))) >>
  ELSE IF ~lenient THEN NoValue
  ELSE IF isDigits(text) /\ digitsValue(text) \in 1..12
  THEN << dayNumber(2001, digitsValue(text), 1) >>
  ELSE IF Cardinality(slashes(text)) = 2
  THEN LET i1 == CHOOSE i \in slashes(text) : \A j \in slashes(text) : i <= j
           i2 == CHOOSE i \in slashes(text) : \A j \in slashes(text) : j <= i
           mm == SubSeq(text, 1, i1 - 1)
           dd == SubSeq(text, i1 + 1, i2 - 1)
           yy == SubSeq(text, i2 + 1, Len(text))
       IN IF /\ isDigits(mm) /\ isDigits(dd) /\ isDigits(yy) /\ Len(yy) = 4
             /\ validDay(digitsValue(mm), digitsValue(dd))
          THEN << dayNumber(digitsValue(yy), digitsValue(mm), digitsValue(dd)) >>
          ELSE NoValue
  ELSE NoValue

\* the order of characters under the default collation: white space,
\* punctuation, symbols, digits, letters
Collation == <<" ", "-", "/", "+">> \o Digits \o LowerCase

CollationRank ==
  [c \in {Collation[i] : i \in DOMAIN Collation} |->
     CHOOSE i \in DOMAIN Collation : Collation[i] = c]

charRank(c) == CollationRank[c]

\* the first place where two texts differ by rank, 0 if one is a prefix of
\* the other
firstDifference(a, b) ==
  LET n == IF Len(a) < Len(b) THEN Len(a) ELSE Len(b)
      D == {i \in 1..n : a[i] /= b[i]}
  IN IF D = {} THEN 0 ELSE CHOOSE i \in D : \A j \in D : i <= j

\* the order of two texts character by character, shorter first
textOrder(a, b) ==
  LET i == firstDifference(a, b) IN
  IF i = 0
  THEN (IF Len(a) < Len(b) THEN 0 - 1 ELSE IF Len(a) > Len(b) THEN 1 ELSE 0)
  ELSE IF charRank(a[i]) < charRank(b[i]) THEN 0 - 1 ELSE 1

\* String.prototype.localeCompare under the default collation: the letters
\* decide regardless of case, and between texts that differ in case only the
\* one with the lower-case letter at the first difference comes first
localeCompare(a, b) ==
  LET base == textOrder(toLowerCase(a), toLowerCase(b))
      i == firstDifference(a, b)
  IN IF base /= 0 THEN base
     ELSE IF i = 0 THEN 0
     ELSE IF a[i] = toLowerCase(a)[i] THEN 0 - 1 ELSE 1

\* a comparator that takes no notice of the direction
compareRows_ascOnly(a, b, sortKey, sortDir, lenient) ==
  LET av == cellText(a[sortKey])
      bv == cellText(b[sortKey])
      an == Number(av)
      bn == Number(bv)
      ad == Date_parse(av, lenient)
      bd == Date_parse(bv, lenient)
  IN IF sortKey = "agingBucket"
     THEN indexOf(bucketRanks, normalizeAgingBucket(av))
          - indexOf(bucketRanks, normalizeAgingBucket(bv))
     ELSE IF an /= NoValue /\ bn /= NoValue /\ av /= << >> /\ bv /= << >>
     THEN an[1] - bn[1]
     ELSE IF ad /= NoValue /\ bd /= NoValue /\ av /= << >> /\ bv /= << >>
     THEN ad[1] - bd[1]
     ELSE localeCompare(av, bv)

\* a comparator that compares the texts only
compareRows_lexicalOnly(a, b, sortKey, sortDir, lenient) ==
  LET av == cellText(a[sortKey])
      bv == cellText(b[sortKey])
  IN IF sortDir = "asc" THEN localeCompare(av, bv) ELSE localeCompare(bv, av)

\* the comparator handed to out.sort, on two rows
compareRows(a, b, sortKey, sortDir, lenient) ==
  LET av == cellText(a[sortKey])
      bv == cellText(b[sortKey])
      ar == indexOf(bucketRanks, normalizeAgingBucket(av))
      br == indexOf(bucketRanks, normalizeAgingBucket(bv))
      an == Number(av)
      bn == Number(bv)
      ad == Date_parse(av, lenient)
      bd == Date_parse(bv, lenient)
  IN IF sortKey = "agingBucket"
     THEN (IF sortDir = "asc" THEN ar - br ELSE br - ar)
     ELSE IF an /= NoValue /\ bn /= NoValue /\ av /= << >> /\ bv /= << >>
     THEN (IF sortDir = "asc" THEN an[1] - bn[1] ELSE bn[1] - an[1])
     ELSE IF ad /= NoValue /\ bd /= NoValue /\ av /= << >> /\ bv /= << >>
     THEN (IF sortDir = "asc" THEN ad[1] - bd[1] ELSE bd[1] - ad[1])
     ELSE IF sortDir = "asc" THEN localeCompare(av, bv) ELSE localeCompare(bv, av)

sign(n) == IF n < 0 THEN 0 - 1 ELSE IF n > 0 THEN 1 ELSE 0

\* whether the comparator is a consistent comparator for the rows, as
\* Array.prototype.sort requires of it: equality is reflexive, symmetric and
\* transitive, and so are "before" and "after"
comparisons(rows, sortKey, sortDir, lenient) ==
  [i \in DOMAIN rows, j \in DOMAIN rows |->
     sign(compareRows(rows[i], rows[j], sortKey, sortDir, lenient))]

consistentOn(rows, sortKey, sortDir, lenient) ==
  \A c \in { comparisons(rows, sortKey, sortDir, lenient) } :
     \A i, j, k \in DOMAIN rows :
        /\ c[i, i] = 0
        /\ c[i, j] = 0 => c[j, i] = 0
        /\ (c[i, j] = 0 /\ c[j, k] = 0) => c[i, k] = 0
        /\ (c[i, j] < 0 /\ c[j, k] < 0) => c[i, k] < 0
        /\ (c[i, j] > 0 /\ c[j, k] > 0) => c[i, k] > 0

\* a row put in front of the rows it ties with
RECURSIVE insertRow_beforeTies(_, _, _, _, _)
insertRow_beforeTies(sorted, row, sortKey, sortDir, lenient) ==
  IF sorted = << >> THEN << row >>
  ELSE IF compareRows(row, Head(sorted), sortKey, sortDir, lenient) <= 0
  THEN << row >> \o sorted
  ELSE << Head(sorted) >> \o insertRow_beforeTies(Tail(sorted), row, sortKey, sortDir, lenient)

\* a row put into sorted rows, behind every row it does not come before
RECURSIVE insertRow(_, _, _, _, _)
insertRow(sorted, row, sortKey, sortDir, lenient) ==
  IF sorted = << >> THEN << row >>
  ELSE IF compareRows(row, Head(sorted), sortKey, sortDir, lenient) < 0
  THEN << row >> \o sorted
  ELSE << Head(sorted) >> \o insertRow(Tail(sorted), row, sortKey, sortDir, lenient)

\* the stable sort of the rows
RECURSIVE sortStable(_, _, _, _)
sortStable(rows, sortKey, sortDir, lenient) ==
  IF rows = << >> THEN << >>
  ELSE insertRow(sortStable(SubSeq(rows, 1, Len(rows) - 1), sortKey, sortDir, lenient),
                 rows[Len(rows)], sortKey, sortDir, lenient)

permutationsOf(rows) ==
  { [i \in DOMAIN rows |-> rows[p[i]]] : p \in Permutations(DOMAIN rows) }

\* what out.sort(comparator) may leave in `out`: the stable sort under a
\* consistent comparator, and an order of the engine's choosing under any
\* other
sortOutcomes(rows, sortKey, sortDir, lenient) ==
  IF consistentOn(rows, sortKey, sortDir, lenient)
  THEN { sortStable(rows, sortKey, sortDir, lenient) }
  ELSE permutationsOf(rows)

\* the columns of the table, by key; the value of a column is the row's
\* field of that key
Columns == <<"summary", "agingDays", "agingBucket">>

\* columns.find((c) => c.key === sortKey) finds a column
findsColumn(columns, sortKey) == \E i \in DOMAIN columns : columns[i] = sortKey

\* if (sortKey) { const col = columns.find(...); if (col) { out.sort(...) } }
sortStepOutcomes(out, columns, sortKey, sortDir, lenient) ==
  IF sortKey /= "" /\ findsColumn(columns, sortKey)
  THEN sortOutcomes(out, sortKey, sortDir, lenient)
  ELSE { out }

\* if (limit && out.length > limit) return out.slice(0, limit); return out
\* limit is NoValue when the prop is not passed
limitRows(out, limit) ==
  IF limit /= NoValue /\ limit[1] /= 0 /\ Len(out) > limit[1]
  THEN SubSeq(out, 1, limit[1])
  ELSE out

TableRows ==
  [ summary : { strCell(<<"A","b">>), strCell(<<"b"," ","C">>), NullCell },
    agingDays : { numCell(12), numCell(5), NullCell },
    agingBucket : { NullCell } ]

\* what the filter inputs may hold; << >> is an input never typed in
FilterTexts ==
  [ summary : { << >>, <<"a">>, <<"B">>, <<" ">>, <<" ","b"," ">>, <<"b"," ","c">> },
    agingDays : { << >>, <<"1">>, <<" ">> },
    agingBucket : { << >> } ]

NoFilters == [summary |-> << >>, agingDays |-> << >>, agingBucket |-> << >>]

\* most rows of a table that is sorted
MaxSortRows == 3

tableRow(summary, agingDays, agingBucket) ==
  [summary |-> summary, agingDays |-> agingDays, agingBucket |-> agingBucket]

\* rows whose columns mix numbers, dates, other texts and no value
SortRows ==
  { tableRow(strCell(<<"5">>), numCell(12), strCell(<<"9","0","+">>)),
    tableRow(strCell(<<"0","5">>), numCell(5), strCell(<<"0","-","3","0">>)),
    tableRow(strCell(<<"1","0">>), numCell(5), strCell(<<"3","1","-","6","0">>)),
    tableRow(strCell(<<"1","a">>), NullCell, NullCell),
    tableRow(strCell(<<"3","/","1","/","2","0","2","3">>), numCell(12),
             strCell(<<"U","n","k","n","o","w","n">>)),
    tableRow(strCell(<<"2","0","2","4","-","0","1","-","1","0">>), numCell(5),
             strCell(<<"6","0","-","9","0"," ","D">>)),
    tableRow(NullCell, NullCell, strCell(<<"9","0","+">>)) }

\* the props and state of one render: sortKey "" is no sort, "status" is
\* the key of no column, limit NoValue is a table without the prop
FilterCalls ==
  [fn : {"filteredSorted"}, rows : SeqsUpTo(TableRows, MaxRows), filters : FilterTexts,
   sortKey : {""}, sortDir : {"asc"}, limit : {NoValue}, lenient : {FALSE}]

SortCalls ==
  [fn : {"filteredSorted"}, rows : SeqsUpTo(SortRows, MaxSortRows), filters : {NoFilters},
   sortKey : {"summary", "agingDays", "agingBucket", "status"},
   sortDir : {"asc", "desc"}, limit : {NoValue}, lenient : {FALSE}]

\* the same renders on an engine that reads more date formats
LenientCalls ==
  [fn : {"filteredSorted"}, rows : SeqsUpTo(SortRows, MaxSortRows), filters : {NoFilters},
   sortKey : {"summary"}, sortDir : {"asc", "desc"}, limit : {NoValue}, lenient : {TRUE}]

\* the rows of the tables that carry a limit
LimitRows ==
  { r \in SortRows : cellText(r.summary) \in {<<"5">>, <<"1","0">>, <<"1","a">>} }

\* renders of a table with the limit prop, filtered or not
LimitCalls ==
  [fn : {"filteredSorted"}, rows : SeqsUpTo(LimitRows, MaxSortRows),
   filters : {NoFilters, [NoFilters EXCEPT !.summary = <<"1">>]},
   sortKey : {"agingDays"}, sortDir : {"desc"},
   limit : {<< 0 >>, << 1 >>, << 2 >>}, lenient : {FALSE}]

TableCalls == FilterCalls \cup SortCalls \cup LenientCalls \cup LimitCalls

InitTable ==
  /\ AppAtRest
  /\ today = 0
  /\ call \in TableCalls
  /\ ret = NoReturn

\* the first statements of the useMemo callback: out = [...rows], then the
\* filter; `step` is the statement the callback is at
FilterStep ==
  /\ call.fn = "filteredSorted"
  /\ ret = NoReturn
  /\ ret' = [done |-> FALSE, step |-> "sort",
             out |-> filterRows(call.rows, Columns, call.filters)]
  /\ UNCHANGED << appVars, today, env, meetingVars, renderVars, refreshVars, fetchVars, call >>

\* the sort statement; `out` stays what the filter left, `sorted` is the
\* array after the statement
SortStep ==
  /\ call.fn = "filteredSorted"
  /\ ret /= NoReturn
  /\ ret.step = "sort"
  /\ \E s \in sortStepOutcomes(ret.out, Columns, call.sortKey, call.sortDir, call.lenient) :
        ret' = [done |-> FALSE, step |-> "limit", out |-> ret.out, sorted |-> s]
  /\ UNCHANGED << appVars, today, env, meetingVars, renderVars, refreshVars, fetchVars, call >>

\* the limit statement and the return
LimitStep ==
  /\ call.fn = "filteredSorted"
  /\ ret /= NoReturn
  /\ ret.step = "limit"
  /\ ret' = [done |-> TRUE, threw |-> FALSE, step |-> "returned", out |-> ret.out,
             sorted |-> ret.sorted, value |-> limitRows(ret.sorted, call.limit)]
  /\ UNCHANGED << appVars, today, env, meetingVars, renderVars, refreshVars, fetchVars, call >>

NextTable ==
  \/ FilterStep
  \/ SortStep
  \/ LimitStep

SpecTable == InitTable /\ [][NextTable]_vars

\* ------------------------------------------------------------ MeetingsTab
\* most calls of processFile and onSaveAndAction together
MaxRuns == 4

\* the files are named by the order they are submitted in
Files == 1..MaxRuns

fileName(f) == "f" \o ToString(f)

actionItem(description, isSimon) == [description |-> description, isSimon |-> isSimon]

\* what the parse service answers for the text of a file: title and action
\* items (the other fields of MeetingData reach no request decision)
ParsedOf(f) ==
  IF f % 2 = 1
  THEN [title |-> "m1",
        actionItems |-> << actionItem("a1", TRUE), actionItem("a2", FALSE),
                           actionItem("a3", TRUE) >>]
  ELSE [title |-> "m2", actionItems |-> << actionItem("b1", FALSE) >>]

\* values the module reads from the environment once
BridgeUrls == {"", "http://bridge"}

dashboardVars == << appVars, today, env, renderVars, refreshVars, fetchVars, callVars >>

InitMeetings ==
  /\ DashboardAtRest
  /\ today = 0
  /\ call = NoCall
  /\ ret = NoReturn
  /\ meeting = NoValue
  /\ step = "idle"
  /\ error = None
  /\ jiraTickets = << >>
  /\ outlookSent = FALSE
  /\ actionLog = EmptyBag
  /\ outlookBridge \in BridgeUrls
  /\ tasks = << >>
  /\ sent = << >>

\* log(msg): setActionLog((prev) => [...prev, msg]); the log is kept as the
\* bag of its messages, which leaves out the order in which runs that are
\* in flight together wrote theirs
logged(entries, msg) == entries (+) SetToBag({msg})

\* String.prototype.slice(0, n)
slice0(text, n) == SubSeq(text, 1, IF Len(text) < n THEN Len(text) ELSE n)

\* meeting.actionItems.filter((a) => a.isSimon)
simonActionsOf(m) ==
  LET mine(a) == a.isSimon IN SelectSeq(m.actionItems, mine)

\* a request as the history keeps it: the run that issued it, the function
\* that sends it, what it is about, and how it ended
requestOf(id, to, about) ==
  [task |-> id, to |-> to, about |-> about, outcome |-> "pending"]

\* the history with the pending request of a run settled
settle(id, outcome) ==
  [sent EXCEPT ![id] =
     [k \in DOMAIN sent[id] |->
        IF sent[id][k].outcome = "pending"
        THEN [sent[id][k] EXCEPT !.outcome = outcome]
        ELSE sent[id][k]]]

\* the history with one more request of a run
issueRequest(history, id, to, about) ==
  [history EXCEPT ![id] = Append(history[id], requestOf(id, to, about))]

submitted == Cardinality({i \in DOMAIN tasks : tasks[i].fn = "processFile"})

\* onFileChange / onDrop -> processFile up to its first await; the upload
\* area is rendered while step is 'idle' or 'parsing'
SubmitFile(f) ==
  /\ step \in {"idle", "parsing"}
  /\ Len(tasks) < MaxRuns
  /\ f = submitted + 1
  /\ error' = None
  /\ jiraTickets' = << >>
  /\ outlookSent' = FALSE
  /\ actionLog' = logged(EmptyBag, "Reading " \o fileName(f) \o "...")
  /\ step' = "parsing"
  /\ tasks' = Append(tasks, [fn |-> "processFile", file |-> f, at |-> "extractDocx"])
  /\ sent' = Append(sent, << >>)
  /\ UNCHANGED << meeting, outlookBridge, dashboardVars >>

\* processFile: extractDocx has returned the text
ExtractReturns(id) ==
  /\ tasks[id].fn = "processFile"
  /\ tasks[id].at = "extractDocx"
  /\ actionLog' = logged(actionLog, "Extracted text, sending to Claude...")
  /\ tasks' = [tasks EXCEPT ![id].at = "parseMeetingWithAI"]
  /\ sent' = issueRequest(sent, id, "parseMeetingWithAI", tasks[id].file)
  /\ UNCHANGED << meeting, step, error, jiraTickets, outlookSent, outlookBridge,
                  dashboardVars >>

\* processFile: extractDocx or parseMeetingWithAI has thrown
ProcessFileFails(id) ==
  /\ tasks[id].fn = "processFile"
  /\ tasks[id].at \in {"extractDocx", "parseMeetingWithAI"}
  /\ error' = (IF tasks[id].at = "extractDocx"
               THEN "Could not read document.xml from .docx file"
               ELSE "Parse API error: e")
  /\ step' = "idle"
  /\ tasks' = [tasks EXCEPT ![id].at = "done"]
  /\ sent' = settle(id, "failed")
  /\ UNCHANGED << meeting, jiraTickets, outlookSent, actionLog, outlookBridge,
                  dashboardVars >>

\* processFile: parseMeetingWithAI has returned
ParseReturns(id) ==
  /\ tasks[id].fn = "processFile"
  /\ tasks[id].at = "parseMeetingWithAI"
  /\ actionLog' = logged(actionLog, "AI parsing complete.")
  /\ meeting' = << [id |-> id, title |-> ParsedOf(tasks[id].file).title,
                    actionItems |-> ParsedOf(tasks[id].file).actionItems] >>
  /\ step' = "review"
  /\ tasks' = [tasks EXCEPT ![id].at = "done"]
  /\ sent' = settle(id, "ok")
  /\ UNCHANGED << error, jiraTickets, outlookSent, outlookBridge, dashboardVars >>

\* the Discard button of step 'review'
Discard ==
  /\ meeting /= NoValue
  /\ step = "review"
  /\ meeting' = NoValue
  /\ step' = "idle"
  /\ UNCHANGED << error, jiraTickets, outlookSent, actionLog, outlookBridge, tasks,
                  sent, dashboardVars >>

\* the New meeting button of step 'done'
NewMeeting ==
  /\ meeting /= NoValue
  /\ step = "done"
  /\ meeting' = NoValue
  /\ step' = "idle"
  /\ actionLog' = EmptyBag
  /\ UNCHANGED << error, jiraTickets, outlookSent, outlookBridge, tasks, sent,
                  dashboardVars >>

\* the Save button of step 'review': onSaveAndAction up to await saveToR2;
\* the run keeps the meeting of the render that was clicked
ClickSave ==
  /\ meeting /= NoValue
  /\ step = "review"
  /\ Len(tasks) < MaxRuns
  /\ step' = "saving"
  /\ error' = None
  /\ actionLog' = logged(actionLog, "Saving to R2...")
  /\ tasks' = Append(tasks, [fn |-> "onSaveAndAction", meeting |-> meeting[1],
                             at |-> "saveToR2", i |-> 0])
  /\ sent' = Append(sent, << requestOf(Len(tasks) + 1, "saveToR2", meeting[1].id) >>)
  /\ UNCHANGED << meeting, jiraTickets, outlookSent, outlookBridge, dashboardVars >>

\* onSaveAndAction from the statement after the i-th ticket call of run id
\* (i = 0: after the save) up to the next await or the end: the next ticket
\* call, else the draft call, else setStep('done'). `entries` and `history`
\* are the log and the requests so far
proceed_stopsAfterFailure(id, i, entries, history) ==
  LET t == tasks[id]
      simon == simonActionsOf(t.meeting)
      failed == \E k \in DOMAIN history[id] :
                   /\ history[id][k].to = "createJiraTicket"
                   /\ history[id][k].outcome = "failed"
  IN IF i < Len(simon) /\ ~failed
     THEN /\ actionLog' = logged(entries, "Creating Jira ticket: "
                                   \o slice0(simon[i + 1].description, 50) \o "...")
          /\ tasks' = [tasks EXCEPT ![id].at = "createJiraTicket", ![id].i = i + 1]
          /\ sent' = issueRequest(history, id, "createJiraTicket", simon[i + 1].description)
          /\ UNCHANGED step
     ELSE IF outlookBridge /= ""
     THEN /\ actionLog' = logged(entries, "Creating Outlook draft...")
          /\ tasks' = [tasks EXCEPT ![id].at = "sendOutlookDraft"]
          /\ sent' = issueRequest(history, id, "sendOutlookDraft", t.meeting.id)
          /\ UNCHANGED step
     ELSE /\ actionLog' = entries
          /\ tasks' = [tasks EXCEPT ![id].at = "done"]
          /\ sent' = history
          /\ step' = "done"

proceed(id, i, entries, history) ==
  LET t == tasks[id]
      simon == simonActionsOf(t.meeting)
  IN IF i < Len(simon)
     THEN /\ actionLog' = logged(entries, "Creating Jira ticket: "
                                   \o slice0(simon[i + 1].description, 50) \o "...")
          /\ tasks' = [tasks EXCEPT ![id].at = "createJiraTicket", ![id].i = i + 1]
          /\ sent' = issueRequest(history, id, "createJiraTicket", simon[i + 1].description)
          /\ UNCHANGED step
     ELSE IF outlookBridge /= ""
     THEN /\ actionLog' = logged(entries, "Creating Outlook draft...")
          /\ tasks' = [tasks EXCEPT ![id].at = "sendOutlookDraft"]
          /\ sent' = issueRequest(history, id, "sendOutlookDraft", t.meeting.id)
          /\ UNCHANGED step
     ELSE /\ actionLog' = entries
          /\ tasks' = [tasks EXCEPT ![id].at = "done"]
          /\ sent' = history
          /\ step' = "done"

\* onSaveAndAction: saveToR2 has returned
SaveReturns(id) ==
  /\ tasks[id].fn = "onSaveAndAction"
  /\ tasks[id].at = "saveToR2"
  /\ proceed(id, 0, logged(actionLog, "Saved to R2."), settle(id, "ok"))
  /\ UNCHANGED << meeting, error, jiraTickets, outlookSent, outlookBridge,
                  dashboardVars >>

\* onSaveAndAction: saveToR2 has thrown; the outer catch
SaveFails(id) ==
  /\ tasks[id].fn = "onSaveAndAction"
  /\ tasks[id].at = "saveToR2"
  /\ error' = "R2 save failed: e"
  /\ step' = "review"
  /\ tasks' = [tasks EXCEPT ![id].at = "done"]
  /\ sent' = settle(id, "failed")
  /\ UNCHANGED << meeting, jiraTickets, outlookSent, actionLog, outlookBridge,
                  dashboardVars >>

\* the key Jira gives a ticket created for an action item
ticketFor(description) == [key |-> "PKPI2-" \o description]

\* onSaveAndAction: createJiraTicket has returned for the i-th action
TicketReturns(id) ==
  /\ tasks[id].fn = "onSaveAndAction"
  /\ tasks[id].at = "createJiraTicket"
  /\ LET ticket == ticketFor(simonActionsOf(tasks[id].meeting)[tasks[id].i].description)
     IN /\ jiraTickets' = Append(jiraTickets, ticket)
        /\ proceed(id, tasks[id].i, logged(actionLog, "Created " \o ticket.key),
                   settle(id, "ok"))
  /\ UNCHANGED << meeting, error, outlookSent, outlookBridge, dashboardVars >>

\* onSaveAndAction: createJiraTicket has thrown; the catch inside the loop
TicketFails(id) ==
  /\ tasks[id].fn = "onSaveAndAction"
  /\ tasks[id].at = "createJiraTicket"
  /\ proceed(id, tasks[id].i, logged(actionLog, "Jira failed: Jira create failed: e"),
             settle(id, "failed"))
  /\ UNCHANGED << meeting, error, jiraTickets, outlookSent, outlookBridge,
                  dashboardVars >>

\* onSaveAndAction: sendOutlookDraft has returned
DraftReturns(id) ==
  /\ tasks[id].fn = "onSaveAndAction"
  /\ tasks[id].at = "sendOutlookDraft"
  /\ outlookSent' = TRUE
  /\ actionLog' = logged(actionLog, "Outlook draft created.")
  /\ step' = "done"
  /\ tasks' = [tasks EXCEPT ![id].at = "done"]
  /\ sent' = settle(id, "ok")
  /\ UNCHANGED << meeting, error, jiraTickets, outlookBridge, dashboardVars >>

\* onSaveAndAction: sendOutlookDraft has thrown; its own catch
DraftFails(id) ==
  /\ tasks[id].fn = "onSaveAndAction"
  /\ tasks[id].at = "sendOutlookDraft"
  /\ actionLog' = logged(actionLog, "Outlook failed: Outlook draft failed: e")
  /\ step' = "done"
  /\ tasks' = [tasks EXCEPT ![id].at = "done"]
  /\ sent' = settle(id, "failed")
  /\ UNCHANGED << meeting, error, jiraTickets, outlookSent, outlookBridge,
                  dashboardVars >>

NextMeetings ==
  \/ \E f \in Files : SubmitFile(f)
  \/ \E id \in DOMAIN tasks : ExtractReturns(id)
  \/ \E id \in DOMAIN tasks : ProcessFileFails(id)
  \/ \E id \in DOMAIN tasks : ParseReturns(id)
  \/ Discard
  \/ NewMeeting
  \/ ClickSave
  \/ \E id \in DOMAIN tasks : SaveReturns(id)
  \/ \E id \in DOMAIN tasks : SaveFails(id)
  \/ \E id \in DOMAIN tasks : TicketReturns(id)
  \/ \E id \in DOMAIN tasks : TicketFails(id)
  \/ \E id \in DOMAIN tasks : DraftReturns(id)
  \/ \E id \in DOMAIN tasks : DraftFails(id)

SpecMeetings == InitMeetings /\ [][NextMeetings]_vars

\* the loop run candidate by candidate settles as fetchJiraSearch computes
FetchStepsAgree ==
  fResult \in {"returned", "thrown"} =>
    LET f == fetchJiraSearch(candidatesOf(env), fResp) IN
    /\ f.ok = (fResult = "returned")
    /\ f.ok => f.by = fContacted[Len(fContacted)]
    /\ ~f.ok => f.message = fMessage

TypeOK ==
  /\ pc \in {"mount", "idle", "awaitPage", "settled"}
  /\ isRefreshing \in BOOLEAN
  /\ run \in {"primary", "fallback"}

\* =============================================================== properties
keysOf(ts) == {ts[i].key : i \in DOMAIN ts}

uniqueKeys(ts) == \A i, j \in DOMAIN ts : ts[i].key = ts[j].key => i = j

\* the last ticket of ts with key k
lastWithKey(ts, k) ==
  ts[CHOOSE i \in DOMAIN ts :
       ts[i].key = k /\ \A j \in DOMAIN ts : ts[j].key = k => j <= i]

\* refreshFromJira has returned a report that onRefresh has not applied yet
refreshReturned == pc = "settled" /\ ~result.threw

\* the runs of this refresh that have returned r's records
returnedBy(r) == {i \in DOMAIN returned : returned[i].run = r}

\* the page requests of run r so far, in order
RECURSIVE requestsOf(_, _)
requestsOf(log, r) ==
  IF log = << >> THEN << >>
  ELSE IF Head(log).run = r THEN << Head(log) >> \o requestsOf(Tail(log), r)
  ELSE requestsOf(Tail(log), r)

\* the records of a list of pages, page after page
RECURSIVE concatIssues(_)
concatIssues(entries) ==
  IF entries = << >> THEN << >>
  ELSE Head(entries).issues \o concatIssues(Tail(entries))

\* C1: when the primary and the fallback run both return zero records,
\* refreshFromJira throws the zero-tickets error, and once onRefresh has
\* handled it the snapshot is the one held before the refresh, with
\* refreshError set to that error.
C1_ZeroRefreshKeepsSnapshot ==
  /\ ( /\ pc = "settled"
       /\ \E i \in returnedBy("primary") : Len(returned[i].issues) = 0
       /\ \E i \in returnedBy("fallback") : Len(returned[i].issues) = 0 )
     => (result.threw /\ result.message = ZeroMessage /\ reportData = prev)
  /\ (pc = "idle" /\ result.threw /\ result.message = ZeroMessage)
     => (reportData = prev /\ refreshError = ZeroMessage /\ ~isRefreshing)

\* a zero-result refresh was handled on top of a snapshot that an earlier
\* refresh had already replaced
C1_Witness ==
  /\ pc = "idle"
  /\ result.threw /\ result.message = ZeroMessage
  /\ refreshError = ZeroMessage
  /\ reportData.generatedAt = 0
  /\ Len(reportData.tickets) > 0
  /\ reportData = prev

\* C2: the merged collection holds every key of the previous and of the
\* fresh collection; a ticket whose key is only in the previous collection
\* is kept unchanged; a ticket whose key is in the fresh collection is
\* the fresh ticket, whole.
C2_MergeAdditive ==
  refreshReturned =>
    LET old == prev.tickets
        fresh == mapAll(allIssues, today)
        merged == result.report.tickets
    IN /\ keysOf(merged) = keysOf(old) \cup keysOf(fresh)
       /\ \A i \in DOMAIN old :
            old[i].key \notin keysOf(fresh) => \E j \in DOMAIN merged : merged[j] = old[i]
       /\ \A j \in DOMAIN merged :
            merged[j].key \in keysOf(fresh) => merged[j] = lastWithKey(fresh, merged[j].key)

\* a merge with a key on the old side only, a key on both sides whose old
\* and fresh tickets differ, and a key on the fresh side only
C2_Witness ==
  /\ refreshReturned
  /\ LET old == prev.tickets
         fresh == mapAll(allIssues, today)
     IN /\ \E i \in DOMAIN old : old[i].key \notin keysOf(fresh)
        /\ \E i \in DOMAIN old : \E j \in DOMAIN fresh :
              old[i].key = fresh[j].key /\ old[i] /= fresh[j]
        /\ \E j \in DOMAIN fresh : fresh[j].key \notin keysOf(old)

C4_MergeIdempotent ==
  /\ (refreshReturned /\ mapAll(allIssues, today) = prev.tickets)
       => result.report.tickets = prev.tickets
  /\ mergeByKey(reportData.tickets, reportData.tickets) = reportData.tickets

\* a refresh fetched exactly the collection the snapshot already held
C4_Witness ==
  /\ refreshReturned
  /\ Len(prev.tickets) > 0
  /\ mapAll(allIssues, today) = prev.tickets

C6_FallbackIffPrimaryEmpty ==
  pc \in {"awaitPage", "settled"} =>
    LET fallbackStarted ==
          run = "fallback" \/ \E i \in DOMAIN pageLog : pageLog[i].run = "fallback"
    IN /\ fallbackStarted <=>
            \E i \in returnedBy("primary") : Len(returned[i].issues) = 0
       /\ \A i, j \in DOMAIN pageLog :
            (pageLog[i].run = "primary" /\ pageLog[j].run = "fallback") => i < j
       /\ \A i \in returnedBy("primary") :
            (pc = "settled" /\ Len(returned[i].issues) > 0) =>
               /\ ~fallbackStarted
               /\ ~result.threw
               /\ result.report = buildReport(prev, returned[i].issues, today)

\* a fallback request is in flight after the primary run returned nothing
C6_Witness ==
  /\ pc = "awaitPage"
  /\ run = "fallback"
  /\ request.jql = jqlFallbackOf(prev.owner)
  /\ \E i \in returnedBy("primary") : Len(returned[i].issues) = 0

\* C7: after a page has been received, a further request of the same run is
\* in flight exactly when that page was non-empty, not flagged last and
\* carried a cursor.
C7_NextPageIffContinues ==
  (pageLog /= << >> /\ pageLog[Len(pageLog)].ok) =>
    ( (pc = "awaitPage" /\ run = pageLog[Len(pageLog)].run)
      <=> ( /\ Len(lastPage.issues) > 0
            /\ ~lastPage.isLast
            /\ lastPage.nextPageToken \in Tokens ) )

\* a run went on after its first page and stopped at a non-empty second page
\* flagged last although it carried a cursor
C7_Witness ==
  /\ pc = "settled"
  /\ Len(requestsOf(pageLog, run)) = 2
  /\ Len(lastPage.issues) > 0
  /\ lastPage.isLast
  /\ lastPage.nextPageToken \in Tokens

\* C8: what a run returns is the records of its pages, page after page, the
\* terminating page included; one ticket is mapped per record; and a run
\* whose second page is non-empty and carries no cursor has ended after two
\* requests with n1 + n2 records.
C8_RunReturnsAllPages ==
  /\ \A i \in DOMAIN returned :
       returned[i].issues = concatIssues(requestsOf(pageLog, returned[i].run))
  /\ refreshReturned =>
       /\ allIssues = returned[Len(returned)].issues
       /\ Len(mapAll(allIssues, today)) = Len(allIssues)
       /\ \A i \in DOMAIN allIssues :
            mapAll(allIssues, today)[i].key = allIssues[i].key
  /\ LET reqs == requestsOf(pageLog, run) IN
     ( /\ pc \in {"awaitPage", "settled"}
       /\ Len(reqs) = 2
       /\ reqs[2].ok
       /\ Len(reqs[2].issues) > 0
       /\ lastPage.nextPageToken = None )
     => /\ pc = "settled"
        /\ ~result.threw
        /\ Len(allIssues) = Len(reqs[1].issues) + Len(reqs[2].issues)

\* a run of two non-empty pages, the second without a cursor and not
\* flagged last, has returned
C8_Witness ==
  /\ refreshReturned
  /\ LET reqs == requestsOf(pageLog, run) IN
     /\ Len(reqs) = 2
     /\ Len(reqs[1].issues) > 0
     /\ Len(reqs[2].issues) > 0
  /\ ~lastPage.isLast
  /\ lastPage.nextPageToken = None

\* the message errors.join(' | ') gives, built from the left
RECURSIVE joinedUpTo(_, _)
joinedUpTo(es, n) ==
  IF n = 0 THEN ""
  ELSE IF n = 1 THEN es[1]
  ELSE joinedUpTo(es, n - 1) \o " | " \o es[n]

\* C9: a page request ends in an error exactly when no candidate answers
\* with a structured body of a successful response.
C9_FailsIffAllCandidatesFail ==
  fResult \in {"returned", "thrown"} =>
    ( fResult = "thrown" <=> \A i \in DOMAIN fResp : fResp[i] /= "json_ok" )

\* the call returned a page after failures of several kinds at the earlier
\* candidates
C9_Witness ==
  /\ fResult = "returned"
  /\ Len(fContacted) >= 3
  /\ \E i, j \in DOMAIN errors : i /= j /\ fResp[i] /= fResp[j]

\* C10: when every candidate fails, one error is recorded per candidate, in
\* candidate order, and the error thrown is their concatenation.
C10_ErrorListsEveryCandidate ==
  fResult = "thrown" =>
    LET cands == candidatesOf(env) IN
    /\ Len(errors) = Len(cands)
    /\ \A i \in DOMAIN cands :
         errors[i] = cands[i] \o ": " \o attemptMessage(fResp[i])
    /\ fContacted = [i \in DOMAIN cands |-> i]
    /\ fMessage = joinedUpTo(errors, Len(errors))

\* four candidates failed, not all in the same way
C10_Witness ==
  /\ fResult = "thrown"
  /\ Len(errors) = 4
  /\ \E i, j \in DOMAIN fResp : fResp[i] /= fResp[j]

\* C11: a failed page request ends the refresh: no further request follows
\* it, refreshFromJira rejects with the request's error whatever the pages
\* received before, and once onRefresh has handled the rejection the
\* snapshot (tickets and totals) is the one held before the refresh, with
\* that error in refreshError.
C11_PageFailureFailsRefresh ==
  /\ \A i \in DOMAIN pageLog : ~pageLog[i].ok => i = Len(pageLog)
  /\ (pageLog /= << >> /\ ~pageLog[Len(pageLog)].ok) =>
       /\ pc = "settled"
       /\ result.threw
       /\ result.message \notin {"", ZeroMessage}
       /\ reportData = prev
  /\ (pc = "idle" /\ result.threw /\ result.message /= ZeroMessage) =>
       /\ reportData.tickets = prev.tickets
       /\ reportData.totals = prev.totals
       /\ refreshError = result.message
       /\ ~isRefreshing

\* the fallback run had received records on its first page when its second
\* page request failed, over a snapshot that holds tickets
C11_Witness ==
  /\ pc = "settled"
  /\ run = "fallback"
  /\ Len(pageLog) = 3
  /\ ~pageLog[3].ok
  /\ Len(allIssues) > 0
  /\ Len(prev.tickets) > 0
  /\ result.threw

\* the four counters of a report are counts over its own tickets
recounted(report) ==
  LET ts == report.tickets IN
  /\ report.totals.allTickets = Len(ts)
  /\ report.totals.completed = Cardinality({i \in DOMAIN ts : ts[i].isDone})
  /\ report.totals.activeTickets = Cardinality({i \in DOMAIN ts : ts[i].active})
  /\ report.totals.overdueItems = Cardinality({i \in DOMAIN ts : ts[i].isOverdue})

\* C12: the report a refresh returns, and the snapshot once onRefresh has
\* stored it, carries totals that are a recount of its merged collection:
\* allTickets the number of tickets, completed the number with isDone,
\* activeTickets the number with active, overdueItems the number with
\* isOverdue, whatever the previous totals were.
C12_TotalsAreRecount ==
  /\ refreshReturned => recounted(result.report)
  /\ (pc = "idle" /\ ~result.threw) =>
       (reportData = result.report /\ recounted(reportData))

\* a refresh returned over a snapshot whose totals were not a recount,
\* overwriting a completed ticket by an open one and adding an overdue one
C12_Witness ==
  /\ refreshReturned
  /\ ~recounted(prev)
  /\ \E i \in DOMAIN prev.tickets : \E j \in DOMAIN result.report.tickets :
        /\ prev.tickets[i].key = result.report.tickets[j].key
        /\ prev.tickets[i].isDone
        /\ ~result.report.tickets[j].isDone
  /\ result.report.totals.overdueItems > 0
  /\ result.report.totals.completed < result.report.totals.allTickets

\* mapIssueToTicket has been applied and has returned
mapped == call.fn = "mapIssueToTicket" /\ ret.done /\ ~ret.threw

\* the name spells "done" in some mix of cases
spellsDone(name) ==
  /\ Len(name) = 4
  /\ name[1] \in {"d", "D"}
  /\ name[2] \in {"o", "O"}
  /\ name[3] \in {"n", "N"}
  /\ name[4] \in {"e", "E"}

\* C13: the ticket mapIssueToTicket returns has active = ~isDone, and
\* isDone exactly when the status-category name is "done" in any mix of
\* cases; a record without a status category gives isDone false, active
\* true.
C13_ActiveIsNotDone ==
  mapped =>
    /\ ret.value.active = ~ret.value.isDone
    /\ ret.value.isDone <=> spellsDone(call.issue.statusCategory)
    /\ call.issue.statusCategory = << >> =>
         (~ret.value.isDone /\ ret.value.active)

\* a record whose status category is spelled in mixed case was mapped to a
\* ticket that is done and not active
C13_Witness ==
  /\ mapped
  /\ call.issue.statusCategory = <<"d","O","n","E">>
  /\ ret.value.isDone
  /\ ~ret.value.active

\* C14: every ticket of the current snapshot has isOverdue exactly when it
\* has a due date and that due date is before today.
C14_OverdueTracksToday ==
  \A i \in DOMAIN reportData.tickets :
    LET t == reportData.tickets[i] IN
    t.isOverdue <=> (t.dueDate /= NoValue /\ today - t.dueDate[1] > 0)

\* bucketFromSignedAgingDays has been applied and has returned
bucketed == call.fn = "bucketFromSignedAgingDays" /\ ret.done /\ ~ret.threw

\* C15: bucketFromSignedAgingDays gives one of the five buckets: Unknown
\* exactly for an absent value, 90+ exactly for d > 90, 61-90 exactly for
\* 60 < d <= 90, 31-60 exactly for 30 < d <= 60, 0-30 exactly for d <= 30
\* (zero and negative values included); 30 -> 0-30, 31 -> 31-60,
\* 60 -> 31-60, 61 -> 61-90, 90 -> 61-90, 91 -> 90+.
C15_BucketPartition ==
  bucketed =>
    LET days == call.days
        b == ret.value
    IN /\ b \in {"0-30", "31-60", "61-90", "90+", "Unknown"}
       /\ (b = "Unknown") <=> (days = NoValue)
       /\ days /= NoValue =>
            LET d == days[1] IN
            /\ (b = "90+") <=> (d > 90)
            /\ (b = "61-90") <=> (60 < d /\ d <= 90)
            /\ (b = "31-60") <=> (30 < d /\ d <= 60)
            /\ (b = "0-30") <=> (d <= 30)
            /\ d = 30 => b = "0-30"
            /\ d = 31 => b = "31-60"
            /\ d = 60 => b = "31-60"
            /\ d = 61 => b = "61-90"
            /\ d = 90 => b = "61-90"
            /\ d = 91 => b = "90+"
            /\ d \in {0, -1} => b = "0-30"

\* the value at the upper boundary, 90, was put in 61-90
C15_Witness ==
  /\ bucketed
  /\ call.days = << 90 >>
  /\ ret.value = "61-90"

\* deliveryOutcome has been applied and has returned
outcomeGiven == call.fn = "deliveryOutcome" /\ ret.done /\ ~ret.threw

\* the text holds no date: null, empty, or not a date at all
noDate(text) == text.kind /= "stamp"

\* C16: deliveryOutcome gives "No due date" whenever the due date is absent,
\* whatever the resolved date; otherwise "Unknown completion date" when the
\* resolved date is absent; otherwise "On Time" when the resolved day is on
\* or before the due day and "Late" when it is after, the times of day
\* playing no part. (A text that is no date counts as absent.)
C16_DeliveryOutcome ==
  outcomeGiven =>
    LET due == call.dueDate
        resolved == call.resolvedDate
    IN /\ noDate(due) => ret.value = "No due date"
       /\ (~noDate(due) /\ noDate(resolved)) => ret.value = "Unknown completion date"
       /\ (~noDate(due) /\ ~noDate(resolved)) =>
            /\ resolved.day <= due.day => ret.value = "On Time"
            /\ resolved.day > due.day => ret.value = "Late"

\* resolved on the due day but at a later time of day: on time
C16_Witness ==
  /\ outcomeGiven
  /\ call.dueDate.kind = "stamp" /\ call.resolvedDate.kind = "stamp"
  /\ call.resolvedDate.day = call.dueDate.day
  /\ call.resolvedDate.slot > call.dueDate.slot
  /\ ret.value = "On Time"

\* deriveBrand has been applied and has returned
brandDerived == call.fn = "deriveBrand" /\ ret.done /\ ~ret.threw

\* character c is the lower-case letter l or its capital
sameLetter(c, l) ==
  \/ c = l
  \/ \E i \in DOMAIN LowerCase : LowerCase[i] = l /\ UpperCase[i] = c

\* text holds the lower-case word somewhere, in any mix of cases
holdsWord(text, word) ==
  \E off \in 0..(Len(text) - Len(word)) :
     \A i \in DOMAIN word : sameLetter(text[off + i], word[i])

\* some label or brand-field value of the call holds the word
someValueHolds(word) ==
  \/ \E i \in DOMAIN call.labels : holdsWord(call.labels[i], word)
  \/ \E i \in DOMAIN call.brands : holdsWord(call.brands[i], word)

\* C17: deriveBrand gives "Selleys" exactly when some label or brand-field
\* value holds "selleys" in any mix of cases (also when one holds "yates"),
\* "Yates" exactly when none holds "selleys" and one holds "yates", and
\* "Other" otherwise, for two empty lists too.
C17_BrandPriority ==
  brandDerived =>
    /\ (ret.value = "Selleys") <=> someValueHolds(str_selleys)
    /\ (ret.value = "Yates") <=>
         (~someValueHolds(str_selleys) /\ someValueHolds(str_yates))
    /\ (ret.value = "Other") <=>
         (~someValueHolds(str_selleys) /\ ~someValueHolds(str_yates))
    /\ (call.labels = << >> /\ call.brands = << >>) => ret.value = "Other"

\* the two halves of the brand name stood in neighbouring values, next to a
\* value naming the other brand: the brand is the other one
C17_Witness ==
  /\ brandDerived
  /\ call.labels = << <<"s","e","l","l">>, <<"e","y","s">> >>
  /\ call.brands = << <<"Y","a","t","e","s">> >>
  /\ ret.value = "Yates"

\* the record carries no classification data: the field is missing or is an
\* empty list
noClassification(issue) == issue.customfield_11588 \in {NoValue, << << >> >>}

\* the text holds none of the three words that decide the other categories
holdsNoCategoryWord(text) ==
  /\ ~holdsWord(text, str_tactical)
  /\ ~holdsWord(text, str_operational)
  /\ ~holdsWord(text, str_not_yet)

\* C18 as stated: a record without classification data is mapped to a
\* Strategic ticket, and Strategic is the category whenever the
\* classification text holds none of "tactical", "operational", "not yet".
C18_NoClassificationIsStrategic ==
  mapped =>
    /\ noClassification(call.issue) => ret.value.category = "Strategic"
    /\ holdsNoCategoryWord(ret.value.projectTypeValue) =>
         ret.value.category = "Strategic"

\* the options of the field that carry a value, in order
valuedOptions(field) ==
  IF field = NoValue THEN {} ELSE {i \in DOMAIN field[1] : field[1][i] /= << >>}

\* the first option that carries a value, "Not yet classified" when none does
primaryText(field) ==
  IF valuedOptions(field) = {} THEN NotYetClassified
  ELSE field[1][CHOOSE i \in valuedOptions(field) :
                  \A j \in valuedOptions(field) : i <= j]

\* C18 (amended): a record without classification data (the field missing,
\* an empty list, or options without a value) is mapped to a ticket whose
\* project-type value is "Not yet classified" and whose category is Ad hoc;
\* Strategic is the category exactly when the first classification value
\* holds none of "tactical", "operational", "not yet" in any mix of cases.
C18_NoClassificationIsAdHoc ==
  mapped =>
    /\ ret.value.projectTypeValue = primaryText(call.issue.customfield_11588)
    /\ valuedOptions(call.issue.customfield_11588) = {} =>
         /\ ret.value.projectTypeValue = NotYetClassified
         /\ ret.value.category = "Ad hoc"
    /\ (ret.value.category = "Strategic") <=>
         holdsNoCategoryWord(primaryText(call.issue.customfield_11588))

\* a record without the classification field was mapped to an Ad hoc ticket
C18_Witness ==
  /\ mapped
  /\ call.issue.customfield_11588 = NoValue
  /\ ret.value.projectTypeValue = NotYetClassified
  /\ ret.value.category = "Ad hoc"

\* C19: mapping a record fails exactly when the record lacks its key:
\* a record without key gives a mapping error and no ticket, a record with
\* its key is mapped whatever optional fields it lacks; the report built
\* from fetched records holds no ticket without key.
C19_KeylessRecordFailsMapping ==
  /\ (call.fn = "mapIssueToTicket" /\ ret.done) =>
       /\ call.issue.key = None => ret.threw
       /\ call.issue.key /= None => ~ret.threw
  /\ (call.fn = "buildReport" /\ ret.done) =>
       /\ (\E i \in DOMAIN call.issues : call.issues[i].key = None) => ret.threw
       /\ ~ret.threw =>
            \A i \in DOMAIN ret.value.tickets : ret.value.tickets[i].key /= None

\* the filter step of the table has run
filtered == call.fn = "filteredSorted" /\ ret /= NoReturn

\* two characters are the same letter, whatever their case
sameFolded(a, b) ==
  \/ a = b
  \/ \E i \in DOMAIN LowerCase :
        {a, b} = {LowerCase[i], UpperCase[i]}

\* text holds part somewhere, cases ignored
holdsFolded(text, part) ==
  \E off \in 0..(Len(text) - Len(part)) :
     \A i \in DOMAIN part : sameFolded(text[off + i], part[i])

\* the string form of a cell: nothing for null, the decimal digits of a
\* number, the text itself
shownAs(v) ==
  IF v.t = "null" THEN << >>
  ELSE IF v.t = "str" THEN v.s
  ELSE IF v.n = 12 THEN <<"1","2">>
  ELSE IF v.n = 5 THEN <<"5">>
  ELSE numberToString(v.n)

\* the rows at the positions of `keep`, in order
RECURSIVE rowsAt(_, _, _)
rowsAt(rows, keep, i) ==
  IF i > Len(rows) THEN << >>
  ELSE IF i \in keep THEN << rows[i] >> \o rowsAt(rows, keep, i + 1)
  ELSE rowsAt(rows, keep, i + 1)

\* C20 as stated: the output of the filter step is the rows for which every
\* column with a non-empty filter string holds that string, cases ignored,
\* in the string form of its value.
C20_FilterKeepsMatchingRows ==
  filtered =>
    ret.out =
      rowsAt(call.rows,
             { r \in DOMAIN call.rows :
                 \A c \in DOMAIN Columns :
                    call.filters[Columns[c]] /= << >> =>
                      holdsFolded(shownAs(call.rows[r][Columns[c]]),
                                  call.filters[Columns[c]]) },
             1)

\* the filter string without the blanks before its first and after its last
\* other character
stripped(f) ==
  LET solid == {i \in DOMAIN f : f[i] /= " "} IN
  IF solid = {} THEN << >>
  ELSE LET first == CHOOSE i \in solid : \A j \in solid : i <= j
           last == CHOOSE i \in solid : \A j \in solid : j <= i
       IN SubSeq(f, first, last)

\* C20 (amended): the output of the filter step is the rows for which every
\* column whose filter string, stripped of leading and trailing blanks, is
\* non-empty holds that stripped string, cases ignored, in the string form
\* of its value; a column whose filter is empty or blank imposes nothing,
\* and the columns' conditions are combined with AND.
C20_FilterKeepsRowsMatchingTrimmed ==
  filtered =>
    ret.out =
      rowsAt(call.rows,
             { r \in DOMAIN call.rows :
                 \A c \in DOMAIN Columns :
                    stripped(call.filters[Columns[c]]) /= << >> =>
                      holdsFolded(shownAs(call.rows[r][Columns[c]]),
                                  stripped(call.filters[Columns[c]])) },
             1)

\* two filters were set, one of them with blanks around it; one row passed
\* both and another failed one of them
C20_Witness ==
  /\ filtered
  /\ call.filters.summary = <<" ","b"," ">>
  /\ call.filters.agingDays = <<"1">>
  /\ Len(call.rows) = 2
  /\ Len(ret.out) = 1
  /\ \E r \in DOMAIN call.rows :
        /\ call.rows[r].summary.t = "str"
        /\ holdsFolded(call.rows[r].summary.s, <<"b">>)
        /\ call.rows[r].agingDays = numCell(5)

\* the sort statement of the render has just run: the next statement is the
\* limit, which leaves the sorted rows as they are
sortRan ==
  /\ call.fn = "filteredSorted"
  /\ ret /= NoReturn
  /\ ret.step = "limit"

occurrences(rows, r) == Cardinality({i \in DOMAIN rows : rows[i] = r})

\* b holds the rows of a, each as often
sameRows(a, b) ==
  /\ Len(a) = Len(b)
  /\ \A i \in DOMAIN a : occurrences(a, a[i]) = occurrences(b, a[i])

\* where the bucket of a row stands in 90+, 61-90, 31-60, 0-30, Unknown
placeOfBucket(row) ==
  LET b == normalizeAgingBucket(shownAs(row.agingBucket)) IN
  CASE b = "90+" -> 1
    [] b = "61-90" -> 2
    [] b = "31-60" -> 3
    [] b = "0-30" -> 4
    [] OTHER -> 5

\* C21 as stated: sorted by the aging-bucket column, an ascending sort lists
\* the rows from bucket Unknown up to bucket 90+ and a descending sort from
\* 90+ down to Unknown.
C21_AscendingStartsAtUnknown ==
  (sortRan /\ call.sortKey = "agingBucket") =>
     /\ sameRows(ret.out, ret.sorted)
     /\ \A i, j \in DOMAIN ret.sorted :
          i < j =>
            IF call.sortDir = "asc"
            THEN placeOfBucket(ret.sorted[i]) >= placeOfBucket(ret.sorted[j])
            ELSE placeOfBucket(ret.sorted[i]) <= placeOfBucket(ret.sorted[j])

\* the sort statement has sorted by a column other than the aging bucket
sortedByPlainColumn ==
  /\ sortRan
  /\ call.sortKey \in {"summary", "agingDays"}

RECURSIVE Reverse(_)
Reverse(xs) == IF xs = << >> THEN << >> ELSE Reverse(Tail(xs)) \o << Head(xs) >>

\* what the same render gives under direction asc
ascendingOutcomes ==
  sortStepOutcomes(ret.out, Columns, call.sortKey, "asc", call.lenient)

\* the rows of xs that compare equal to row r
tiedWith(xs, r) ==
  LET ties(x) == compareRows(x, r, call.sortKey, "asc", call.lenient) = 0 IN
  SelectSeq(xs, ties)

\* no two of the rows the filter left compare equal
noTies ==
  \A i, j \in DOMAIN ret.out :
     i /= j => compareRows(ret.out[i], ret.out[j], call.sortKey, "asc", call.lenient) /= 0

eitherOf(xs, r, x) ==
  LET one(y) == y = r \/ y = x IN
  SelectSeq(xs, one)

\* C23: the sort is stable under both directions: two rows of the filter's
\* output that compare equal under the comparator of the render stand in
\* the sorted output in the order they had in the input.
C23_TiedRowsKeepInputOrder ==
  (sortRan /\ findsColumn(Columns, call.sortKey)) =>
     \A i, j \in DOMAIN ret.out :
        compareRows(ret.out[i], ret.out[j], call.sortKey, call.sortDir, call.lenient) = 0
          => eitherOf(ret.sorted, ret.out[i], ret.out[j])
               = eitherOf(ret.out, ret.out[i], ret.out[j])

\* the render has returned
rendered ==
  /\ call.fn = "filteredSorted"
  /\ ret /= NoReturn
  /\ ret.step = "returned"

\* C24: for every limit that is set, 0 included, the render returns the
\* first `limit` rows of the filtered and sorted sequence when that sequence
\* is longer than the limit and the whole sequence otherwise; the limit cuts
\* the sequence the filter and the sort have left, never the input.
C24_LimitKeepsFirstRows ==
  (rendered /\ call.limit /= NoValue) =>
     /\ sameRows(ret.sorted, ret.out)
     /\ ret.value =
          IF Len(ret.sorted) > call.limit[1]
          THEN SubSeq(ret.sorted, 1, call.limit[1])
          ELSE ret.sorted

\* the runs of onSaveAndAction whose save has succeeded
savedRuns ==
  { id \in DOMAIN tasks :
      /\ tasks[id].fn = "onSaveAndAction"
      /\ sent[id][1].outcome = "ok" }

\* what the ticket requests of a run were about, in the order of issue
ticketsAskedBy(id) ==
  LET toJira(r) == r.to = "createJiraTicket"
      asked == SelectSeq(sent[id], toJira)
  IN [k \in DOMAIN asked |-> asked[k].about]

\* the descriptions of the action items of a meeting that are flagged as
\* mine, in list order
RECURSIVE mineOf(_)
mineOf(items) ==
  IF items = << >> THEN << >>
  ELSE IF Head(items).isSimon THEN << Head(items).description >> \o mineOf(Tail(items))
  ELSE mineOf(Tail(items))

isPrefix(a, b) == Len(a) <= Len(b) /\ a = SubSeq(b, 1, Len(a))

\* a run has asked for every ticket of its meeting
ticketLoopOver(id) == tasks[id].at \in {"sendOutlookDraft", "done"}

\* once the save has succeeded a run asks for the tickets of the items
\* flagged as mine one at a time and in list order, whatever the earlier
\* requests came to, and has asked for each of them once when its loop is over
TicketsInListOrder ==
  \A id \in savedRuns :
     /\ isPrefix(ticketsAskedBy(id), mineOf(tasks[id].meeting.actionItems))
     /\ ticketLoopOver(id) => ticketsAskedBy(id) = mineOf(tasks[id].meeting.actionItems)
     /\ Cardinality({k \in DOMAIN sent[id] : sent[id][k].outcome = "pending"}) <= 1
     /\ \A k \in DOMAIN sent[id] :
          sent[id][k].outcome = "pending" => k = Len(sent[id])

\* a step in which a ticket or draft request of a run fails writes the
\* failure to the log, and a step that ends a run whose save succeeded sets
\* the step to 'done'
FailuresLoggedAndDoneReached ==
  \A id \in DOMAIN tasks :
     (id \in savedRuns /\ tasks[id].at /= "done") =>
        /\ (tasks[id].at = "createJiraTicket"
              /\ sent'[id][Len(sent[id])].outcome = "failed")
             => BagIn("Jira failed: Jira create failed: e", actionLog')
        /\ (tasks[id].at = "sendOutlookDraft"
              /\ sent'[id][Len(sent[id])].outcome = "failed")
             => BagIn("Outlook failed: Outlook draft failed: e", actionLog')
        /\ tasks'[id].at = "done" => step' = "done"

\* C25: in onSaveAndAction, once the meeting record is saved, one ticket
\* request is issued for every action item flagged as mine, one after the
\* other in list order; a failed request is logged and the requests for the
\* later items are still issued, and neither failed ticket requests nor a
\* failed draft request keep the run from setting the step to 'done'.
C25_TicketFailuresDoNotStopTheRun ==
  [](TicketsInListOrder) /\ [][FailuresLoggedAndDoneReached]_vars

\* a run has ended with the step 'done' after its first ticket request
\* failed, its second succeeded and its draft request failed
C25_Witness ==
  \E id \in savedRuns :
     /\ tasks[id].at = "done"
     /\ step = "done"
     /\ Len(sent[id]) = 4
     /\ sent[id][2] = [task |-> id, to |-> "createJiraTicket", about |-> "a1",
                       outcome |-> "failed"]
     /\ sent[id][3] = [task |-> id, to |-> "createJiraTicket", about |-> "a3",
                       outcome |-> "ok"]
     /\ sent[id][4].to = "sendOutlookDraft"
     /\ sent[id][4].outcome = "failed"
     /\ jiraTickets = << [key |-> "PKPI2-a3"] >>

\* C26: page requests are strictly sequential and cursor-chained.  A request
\* is issued only once every earlier request of the refresh has been
\* answered; the first request of every run carries no cursor; every later
\* request carries the cursor of the response received just before it in
\* the same run.
cursorOfRequestInFlight ==
  IF requestsOf(pageLog, run) = << >> THEN None ELSE lastPage.nextPageToken

C26_CursorChained ==
  /\ pc = "awaitPage" =>
       /\ request.nextPageToken = cursorOfRequestInFlight
       /\ \A i \in DOMAIN pageLog : pageLog[i].ok
  /\ \A r \in {"primary", "fallback"} :
       \A reqs \in { requestsOf(pageLog, r) } :
          \A k \in DOMAIN reqs :
             /\ (k = 1) <=> (reqs[k].sent = None)
             /\ k < Len(reqs) => reqs[k].ok

\* the fallback run, started without a cursor after the primary run, has
\* its second request in flight, carrying the cursor of its first page
C26_Witness ==
  /\ pc = "awaitPage"
  /\ run = "fallback"
  /\ Len(requestsOf(pageLog, "primary")) = 1
  /\ Len(requestsOf(pageLog, "fallback")) = 1
  /\ pageLog[2].sent = None
  /\ lastPage.nextPageToken = "t1"
  /\ request.nextPageToken = "t1"

\* C27: the candidates are contacted one at a time in priority order, each
\* only after the one before it failed; the page returned is the body of
\* the earliest candidate that succeeds, and no candidate is contacted
\* after it.
succeeds(i) == fResp[i] = "json_ok"

C27_CandidatesInPriorityOrder ==
  /\ \A k \in DOMAIN fContacted :
       /\ fContacted[k] = k
       /\ k < Len(fContacted) => ~succeeds(k)
  /\ Len(fContacted) \in {fIdx - 1, fIdx}
  /\ fResult = "pending" => \A k \in DOMAIN fContacted : ~succeeds(k)
  /\ fResult = "returned" =>
       /\ fContacted /= << >>
       /\ succeeds(Len(fContacted))
       /\ fIdx = Len(fContacted)
  /\ fResult = "thrown" => \A i \in DOMAIN fResp : ~succeeds(i)

\* the second candidate returned the page after the first failed, and the
\* third, which would have succeeded too, was not contacted
C27_Witness ==
  /\ fResult = "returned"
  /\ fContacted = << 1, 2 >>
  /\ ~succeeds(1)
  /\ Len(candidatesOf(env)) >= 3
  /\ succeeds(3)

\* C28: sorted by a column other than the aging bucket, a pair of values is
\* compared numerically if both parse as numbers, otherwise temporally if
\* both parse as dates, otherwise lexically by their string forms; a pair
\* of which only one value parses as a number (or date) is never compared
\* numerically (or temporally).
parsesAsNumber(text) == text /= << >> /\ Number(text) /= NoValue

parsesAsDate(text, lenient) == text /= << >> /\ Date_parse(text, lenient) /= NoValue

comparisonChosen(av, bv, lenient) ==
  IF parsesAsNumber(av) /\ parsesAsNumber(bv) THEN "numeric"
  ELSE IF parsesAsDate(av, lenient) /\ parsesAsDate(bv, lenient) THEN "temporal"
  ELSE "lexical"

\* the ascending comparison of two texts, of the kind chosen for the pair
ascendingBy(kind, av, bv, lenient) ==
  CASE kind = "numeric" -> Number(av)[1] - Number(bv)[1]
    [] kind = "temporal" -> Date_parse(av, lenient)[1] - Date_parse(bv, lenient)[1]
    [] OTHER -> localeCompare(av, bv)

\* how row a stands to row b under the render's direction
chosenOrder(a, b) ==
  LET av == cellText(a[call.sortKey])
      bv == cellText(b[call.sortKey])
      kind == comparisonChosen(av, bv, call.lenient)
  IN IF call.sortDir = "asc" THEN sign(ascendingBy(kind, av, bv, call.lenient))
     ELSE sign(ascendingBy(kind, bv, av, call.lenient))

C28_ComparatorSelectionOrder ==
  sortedByPlainColumn =>
     /\ \A i, j \in DOMAIN ret.out :
          sign(compareRows(ret.out[i], ret.out[j], call.sortKey, call.sortDir,
                           call.lenient))
            = chosenOrder(ret.out[i], ret.out[j])
     /\ consistentOn(ret.out, call.sortKey, call.sortDir, call.lenient) =>
          \A i, j \in DOMAIN ret.sorted :
             i < j => chosenOrder(ret.sorted[i], ret.sorted[j]) <= 0

\* an ascending sort by summary put "5" before "10" (both numbers), and both
\* before "3/1/2023", which the engine reads as a date as it does "5" and
\* "10": a lexical order would have been "10", "3/1/2023", "5"
C28_Witness ==
  /\ sortedByPlainColumn
  /\ call.sortKey = "summary"
  /\ call.sortDir = "asc"
  /\ call.lenient
  /\ Len(ret.sorted) = 3
  /\ ret.out[1].summary = strCell(<<"3","/","1","/","2","0","2","3">>)
  /\ ret.out[2].summary = strCell(<<"1","0">>)
  /\ ret.out[3].summary = strCell(<<"5">>)
  /\ ret.sorted = << ret.out[3], ret.out[2], ret.out[1] >>
  /\ localeCompare(<<"1","0">>, <<"3","/","1","/","2","0","2","3">>) < 0
  /\ localeCompare(<<"3","/","1","/","2","0","2","3">>, <<"5">>) < 0

\* C29 as stated: whatever the prior snapshot, the query of a fallback
\* request differs from the primary query.
fallbackInFlight == pc = "awaitPage" /\ run = "fallback"

C29_FallbackDiffersFromPrimary ==
  fallbackInFlight => request.jql /= jqlPrimary

\* C29 (amended): when the prior snapshot names an owner, the query of a
\* fallback request differs from the primary query only in that the
\* predicate on the current user is replaced by the same predicate on the
\* owner's name; when the snapshot's owner name is empty, the fallback
\* request repeats the primary query.
currentUserPredicate == "(assignee = currentUser() OR reporter = currentUser())"

ownerPredicate(name) ==
  "(assignee = \"" \o name \o "\" OR reporter = \"" \o name \o "\")"

\* the text that follows a leading predicate in a query
afterPredicate(jql, predicate) == SubSeq(jql, Len(predicate) + 1, Len(jql))

startsWith(jql, predicate) ==
  /\ Len(jql) >= Len(predicate)
  /\ SubSeq(jql, 1, Len(predicate)) = predicate

C29_FallbackNamesOwnerIfKnown ==
  /\ startsWith(jqlPrimary, currentUserPredicate)
  /\ fallbackInFlight =>
       IF prev.owner /= ""
       THEN /\ request.jql /= jqlPrimary
            /\ startsWith(request.jql, ownerPredicate(prev.owner))
            /\ afterPredicate(request.jql, ownerPredicate(prev.owner))
                 = afterPredicate(jqlPrimary, currentUserPredicate)
       ELSE request.jql = jqlPrimary

\* the primary run of a refresh from a snapshot owned by Simon came back
\* empty and the fallback request is in flight
C29_Witness ==
  /\ fallbackInFlight
  /\ prev.owner = "Simon"
  /\ \E i \in returnedBy("primary") : Len(returned[i].issues) = 0
  /\ startsWith(request.jql, "(assignee = \"Simon\" OR reporter = \"Simon\")")

\* C30: when a page request of the primary run fails, no fallback request is
\* issued and the refresh fails with the error of that request, which
\* onRefresh then shows; the fallback run starts only after a primary run
\* that completed with zero records.
requestErrors ==
  { fetchJiraSearch(candidatesOf(env), resp).message :
      resp \in { r \in RespVectors(candidatesOf(env), RefreshOutcomes) :
                   ~fetchJiraSearch(candidatesOf(env), r).ok } }

primaryFailed == \E i \in DOMAIN pageLog : pageLog[i].run = "primary" /\ ~pageLog[i].ok

C30_PrimaryErrorSkipsFallback ==
  /\ primaryFailed =>
       /\ pc = "settled"
       /\ run = "primary"
       /\ \A i \in DOMAIN pageLog : pageLog[i].run = "primary"
       /\ returned = << >>
       /\ result.threw
       /\ result.message \in requestErrors
       /\ result.message /= ZeroMessage
  /\ (pc = "idle" /\ run = "primary" /\ result.threw /\ result.message /= ZeroMessage) =>
       /\ refreshError = result.message
       /\ refreshError \in requestErrors
       /\ reportData = prev
  /\ (run = "fallback" /\ pc \in {"awaitPage", "settled"}) =>
       /\ \A i \in DOMAIN pageLog : pageLog[i].run = "primary" => pageLog[i].ok
       /\ returned /= << >>
       /\ returned[1] = [run |-> "primary", issues |-> << >>]

\* the first page request of the primary run failed at every candidate, no
\* record having been received, and the refresh has failed with that error
C30_Witness ==
  /\ pc = "settled"
  /\ run = "primary"
  /\ Len(pageLog) = 1
  /\ ~pageLog[1].ok
  /\ allIssues = << >>
  /\ result.threw
  /\ result.message \in requestErrors

\* C31 as stated: every refresh that is started finishes, isRefreshing being
\* reset to false, whatever the upstream returns, as long as every page
\* request returns or fails.
C31_EveryRefreshFinishes == isRefreshing ~> ~isRefreshing

\* C32 as stated: at most one onRefresh call is in flight at any time, and
\* every successful refresh was merged onto the snapshot that is current
\* when its result is applied.
C32_OneRefreshInFlight ==
  /\ Cardinality(inFlight) <= 1
  /\ lastApplied /= << >> => lastApplied[1].base = lastApplied[1].over

\* C33 as stated: after every successful refresh, whatever the snapshot it
\* started from, totals.completed + totals.activeTickets = totals.allTickets.
sumsToAll(report) ==
  report.totals.completed + report.totals.activeTickets = report.totals.allTickets

C33_CompletedPlusActiveIsAll ==
  /\ refreshReturned => sumsToAll(result.report)
  /\ (pc = "idle" /\ ~result.threw /\ hasInitialLoadCompleted) => sumsToAll(reportData)

\* C34 as stated: sorted by a column other than the aging bucket, the
\* comparator has no cycle over the values of the column, whatever they mix:
\* if a sorts before b and b before c, then a does not sort after c.
C34_NoComparisonCycles ==
  sortedByPlainColumn =>
     \A c \in { comparisons(ret.out, call.sortKey, call.sortDir, call.lenient) } :
        \A i, j, k \in DOMAIN ret.out :
           (c[i, j] < 0 /\ c[j, k] < 0) => ~(c[i, k] > 0)

\* C35 as stated: the meeting shown in step 'review' is the parse result of
\* the file submitted last, whatever the order in which the calls of
\* processFile settle.
processFileCalls == {id \in DOMAIN tasks : tasks[id].fn = "processFile"}

lastSubmitted == CHOOSE id \in processFileCalls : \A other \in processFileCalls : other <= id

C35_ReviewShowsLastFile ==
  (step = "review" /\ processFileCalls /= {}) =>
     /\ meeting /= NoValue
     /\ meeting[1].id = lastSubmitted
     /\ meeting[1].title = ParsedOf(tasks[lastSubmitted].file).title

\* the onSaveAndAction runs started on the meeting that processFile call m made
runsOf(m) ==
  { id \in DOMAIN tasks :
      tasks[id].fn = "onSaveAndAction" /\ tasks[id].meeting.id = m }

\* the runs of a meeting that have issued a ticket request
runsAskingTickets(m) == { id \in runsOf(m) : ticketsAskedBy(id) /= << >> }

\* C36: for one reviewed meeting, whatever the Save clicks, failed saves and
\* retries, a ticket request is issued at most once for each action item
\* flagged as mine: at most one run of the meeting issues ticket requests and
\* it issues one per flagged item at most, and once a ticket request has been
\* issued for a meeting the step is never again 'review' with that meeting,
\* the only state where Save starts a run.
C36_TicketsAskedOncePerMeeting ==
  \A m \in processFileCalls :
     /\ Cardinality(runsAskingTickets(m)) <= 1
     /\ \A id \in runsOf(m) :
           isPrefix(ticketsAskedBy(id), mineOf(tasks[id].meeting.actionItems))
     /\ runsAskingTickets(m) /= {} =>
           ~(step = "review" /\ meeting /= NoValue /\ meeting[1].id = m)

\* the saveToR2 call of run id settles in this step
saveSettles(id) ==
  /\ tasks[id].fn = "onSaveAndAction"
  /\ tasks[id].at = "saveToR2"
  /\ tasks'[id].at /= "saveToR2"

\* the runs whose saveToR2 call has failed
failedSaves ==
  { id \in DOMAIN tasks :
      tasks[id].fn = "onSaveAndAction" /\ sent[id][1].outcome = "failed" }

\* C37: when storing the meeting record fails in onSaveAndAction, the run
\* issues no ticket request and no draft request, the step goes from 'saving'
\* back to 'review' with the error set, and the meeting the run was saving is
\* still the one under review, so that Save can be clicked again; the step
\* becomes 'done' only through a run whose save has succeeded.
failedSaveBackToReview ==
  /\ \A id \in DOMAIN tasks :
        (saveSettles(id) /\ sent'[id][1].outcome = "failed") =>
           /\ step = "saving"
           /\ step' = "review"
           /\ error' /= None
           /\ meeting' = << tasks[id].meeting >>
  /\ \A id \in failedSaves' : Len(sent'[id]) = 1 /\ tasks'[id].at = "done"
  /\ (step /= "done" /\ step' = "done") =>
        \E id \in savedRuns' : tasks[id].at /= "done" /\ tasks'[id].at = "done"

C37_FailedSaveBackToReview == [][failedSaveBackToReview]_vars

====
